---- MODULE Spec2Model ----
(***************************************************************************)
(* Clause normalisation of the Datalog front end                           *)
(* (src/src/ast/analysis/ClauseNormalisation.cpp).                          *)
(*                                                                         *)
(* ClauseNormalisationAnalysis::run walks the clauses of a program and     *)
(* stores one NormalisedClause per clause.  A NormalisedClause is built by *)
(* its constructor: the head element first, then one call of               *)
(* addClauseBodyLiteral per body literal.  normaliseArgument turns an      *)
(* argument into a token and, for aggregators, emits further elements.     *)
(*                                                                         *)
(* Tokens are modelled as the very strings the code builds; qualified      *)
(* names are sequences of components.                                      *)
(***************************************************************************)
EXTENDS Integers, Sequences, FiniteSets, Bags, TLC

VARIABLES
    clauses,          \* program.getClauses(): the clauses of the translation unit
    normalisations,   \* ClauseNormalisationAnalysis::normalisations, keyed by clause
    countUnnamed,     \* the function-local static of normaliseArgument
    nc,               \* the NormalisedClause under construction
    pc,               \* position of run: "idle", "clause", "body", "aborted"
    ci,               \* index of the clause the loop of run is at
    li,               \* index of the next body literal of that clause
    heap,             \* the AST nodes that exist, by address (1..Len(heap))
    roots,            \* the addresses of the trees a pass holds (owning pointers)
    last,             \* the last operation on the AST with what it was given and gave
    nops              \* the number of operations on the AST so far

astVars == <<heap, roots, last, nops>>
vars == <<clauses, normalisations, countUnnamed, nc, pc, ci, li, heap, roots, last, nops>>

-----------------------------------------------------------------------------
(* AST nodes.  An argument or literal is a record tagged with its class.   *)

Var(n) == [kind |-> "AstVariable", name |-> n]
Unnamed == [kind |-> "AstUnnamedVariable"]
Counter == [kind |-> "AstCounter"]
Str(s) == [kind |-> "AstStringConstant", str |-> s]
Num(n) == [kind |-> "AstNumericConstant", num |-> n]
Nil == [kind |-> "AstNilConstant"]
\* target is <<>> (getTargetExpression() == nullptr) or <<expr>>
Aggr(op, target, body) ==
    [kind |-> "AstAggregator", op |-> op, target |-> target, body |-> body]

\* intrinsic functors: op with its operands in order
UnaryFunctor(op, o) == [kind |-> "AstUnaryFunctor", op |-> op, args |-> <<o>>]
BinaryFunctor(op, l, r) == [kind |-> "AstBinaryFunctor", op |-> op, args |-> <<l, r>>]
TernaryFunctor(op, a1, a2, a3) ==
    [kind |-> "AstTernaryFunctor", op |-> op, args |-> <<a1, a2, a3>>]
UserDefinedFunctor(name, args) ==
    [kind |-> "AstUserDefinedFunctor", name |-> name, args |-> args]
RecordInit(args) == [kind |-> "AstRecordInit", args |-> args]
TypeCast(value, type) == [kind |-> "AstTypeCast", value |-> value, type |-> type]
SubroutineArgument(n) == [kind |-> "AstSubroutineArgument", number |-> n]

Atom(name, args) == [kind |-> "AstAtom", name |-> name, args |-> args]
Neg(atom) == [kind |-> "AstNegation", atom |-> atom]
BinCon(op, lhs, rhs) ==
    [kind |-> "AstBinaryConstraint", op |-> op, lhs |-> lhs, rhs |-> rhs]
\* a literal of a class the normaliser has no case for; text is toString(lit)
OtherLit(text) == [kind |-> "AstBooleanConstraint", text |-> text]

Clause(head, body) == [head |-> head, body |-> body]

-----------------------------------------------------------------------------
(* Printing of the values that end up inside tokens.                       *)

\* AstStringConstant::print: the constant between double quotes
PrintStringConstant(c) == "\"" \o c.str \o "\""

\* AstNumberConstant::print: the number in decimal
PrintNumericConstant(c) == ToString(c.num)

\* operator<< of the aggregate operator
AggregateOpSymbol(op) ==
    CASE op = "min" -> "min"
      [] op = "max" -> "max"
      [] op = "count" -> "count"
      [] op = "sum" -> "sum"

\* toBinaryConstraintSymbol
toBinaryConstraintSymbol(op) ==
    CASE op = "EQ" -> "="
      [] op = "NE" -> "!="
      [] op = "LT" -> "<"
      [] op = "LE" -> "<="
      [] op = "GT" -> ">"
      [] op = "GE" -> ">="

-----------------------------------------------------------------------------
(* NormalisedClause.  The record carries the fields of the object and, as  *)
(* countUnnamed, the static counter the member functions share.            *)

\* the members as the default member initialisers leave them
NewNormalisedClause ==
    [clauseElements |-> <<>>, constants |-> {}, variables |-> {},
     fullyNormalised |-> TRUE, aggrScopeCount |-> 0]

Element(name, params) == [name |-> name, params |-> params]

RECURSIVE normaliseArgument(_, _)
RECURSIVE normaliseArguments(_, _, _)
RECURSIVE addClauseBodyLiteral(_, _, _)
RECURSIVE addBodyLiterals(_, _, _)

\* a variant: the string's text filed under the numeric prefix
normaliseStringConstantAsNumber(st, stringCst) ==
    LET name == "@min:cst:num:" \o stringCst.str
    IN [st |-> [st EXCEPT !.constants = @ \cup {name}], tok |-> name]

\* lines 62-66
normaliseStringConstant(st, stringCst) ==
    LET name == "@min:cst:str" \o PrintStringConstant(stringCst)
    IN [st |-> [st EXCEPT !.constants = @ \cup {name}], tok |-> name]

\* a variant: the number's token is returned but not entered into constants
normaliseNumericConstantUnrecorded(st, numericCst) ==
    [st |-> st, tok |-> "@min:cst:num:" \o PrintNumericConstant(numericCst)]

\* lines 67-71
normaliseNumericConstant(st, numericCst) ==
    LET name == "@min:cst:num:" \o PrintNumericConstant(numericCst)
    IN [st |-> [st EXCEPT !.constants = @ \cup {name}], tok |-> name]

\* lines 72-74
normaliseNilConstant(st) ==
    [st |-> [st EXCEPT !.constants = @ \cup {"@min:cst:nil"}], tok |-> "@min:cst:nil"]

\* a variant: the variable's name under a prefix instead of the raw name
normaliseVariablePrefixed(st, var) ==
    LET name == "@min:var:" \o var.name
    IN [st |-> [st EXCEPT !.variables = @ \cup {name}], tok |-> name]

\* lines 75-78
normaliseVariable(st, var) ==
    LET name == var.name
    IN [st |-> [st EXCEPT !.variables = @ \cup {name}], tok |-> name]

\* a variant: the counter is read but not incremented
normaliseUnnamedVariableNoIncrement(st) ==
    LET name == "@min:unnamed:" \o ToString(st.countUnnamed)
    IN [st |-> [st EXCEPT !.variables = @ \cup {name}], tok |-> name]

\* lines 79-84: the counter is static, shared by every NormalisedClause
normaliseUnnamedVariable(st) ==
    LET name == "@min:unnamed:" \o ToString(st.countUnnamed)
    IN [st |-> [st EXCEPT !.countUnnamed = @ + 1,
                          !.variables = @ \cup {name}],
        tok |-> name]

\* a variant: every unhandled argument gets a token of its own from the static counter
normaliseUnhandledNumbered(st) ==
    [st |-> [st EXCEPT !.fullyNormalised = FALSE, !.countUnnamed = @ + 1],
     tok |-> "@min:unhandled:arg:" \o ToString(st.countUnnamed)]

\* lines 118-121
normaliseUnhandled(st) ==
    [st |-> [st EXCEPT !.fullyNormalised = FALSE], tok |-> "@min:unhandled:arg"]

\* a variant: the target expression is normalised but left out of the signature
normaliseAggregatorNoTarget(st, aggr) ==
    LET count == st.aggrScopeCount + 1
        scopeID == "@min:scope:" \o ToString(count)
        s1 == [st EXCEPT !.aggrScopeCount = count,
                         !.variables = @ \cup {scopeID}]
        aggrTypeSignature == "@min:aggrtype" \o ":" \o AggregateOpSymbol(aggr.op)
        r == IF aggr.target # <<>>
             THEN normaliseArguments(s1, aggr.target, <<scopeID>>)
             ELSE [st |-> s1, vars |-> <<scopeID>>]
        s2 == [r.st EXCEPT !.clauseElements =
                   Append(@, Element(<<aggrTypeSignature>>, <<scopeID>>))]
    IN [st |-> addBodyLiterals(s2, scopeID, aggr.body), tok |-> scopeID]

\* a variant: aggrScopeCount++ in place of ++aggrScopeCount
normaliseAggregatorPostIncrement(st, aggr) ==
    LET scopeID == "@min:scope:" \o ToString(st.aggrScopeCount)
        s1 == [st EXCEPT !.aggrScopeCount = @ + 1,
                         !.variables = @ \cup {scopeID}]
        aggrTypeSignature == "@min:aggrtype" \o ":" \o AggregateOpSymbol(aggr.op)
        r == IF aggr.target # <<>>
             THEN normaliseArguments(s1, aggr.target, <<scopeID>>)
             ELSE [st |-> s1, vars |-> <<scopeID>>]
        s2 == [r.st EXCEPT !.clauseElements =
                   Append(@, Element(<<aggrTypeSignature>>, r.vars))]
    IN [st |-> addBodyLiterals(s2, scopeID, aggr.body), tok |-> scopeID]

\* lines 85-117
normaliseAggregator(st, aggr) ==
    LET count == st.aggrScopeCount + 1
        scopeID == "@min:scope:" \o ToString(count)
        s1 == [st EXCEPT !.aggrScopeCount = count,
                         !.variables = @ \cup {scopeID}]
        aggrTypeSignature == "@min:aggrtype" \o ":" \o AggregateOpSymbol(aggr.op)
        r == IF aggr.target # <<>>
             THEN normaliseArguments(s1, aggr.target, <<scopeID>>)
             ELSE [st |-> s1, vars |-> <<scopeID>>]
        s2 == [r.st EXCEPT !.clauseElements =
                   Append(@, Element(<<aggrTypeSignature>>, r.vars))]
    IN [st |-> addBodyLiterals(s2, scopeID, aggr.body), tok |-> scopeID]

\* lines 61-122
normaliseArgument(st, arg) ==
    IF arg.kind = "AstStringConstant" THEN normaliseStringConstant(st, arg)
    ELSE IF arg.kind = "AstNumericConstant" THEN normaliseNumericConstant(st, arg)
    ELSE IF arg.kind = "AstNilConstant" THEN normaliseNilConstant(st)
    ELSE IF arg.kind = "AstVariable" THEN normaliseVariable(st, arg)
    ELSE IF arg.kind = "AstUnnamedVariable" THEN normaliseUnnamedVariable(st)
    ELSE IF arg.kind = "AstAggregator" THEN normaliseAggregator(st, arg)
    ELSE normaliseUnhandled(st)

\* the loops "for arg: vars.push_back(normaliseArgument(arg))" (lines 13-15, 31-33)
normaliseArguments(st, args, acc) ==
    IF args = <<>> THEN [st |-> st, vars |-> acc]
    ELSE LET r == normaliseArgument(st, Head(args))
         IN normaliseArguments(r.st, Tail(args), Append(acc, r.tok))

\* a variant: every atom reports its own outcome in fullyNormalised
addClauseAtomResetting(st, qualifier, scopeID, atom) ==
    LET name == <<qualifier>> \o atom.name
        r == normaliseArguments([st EXCEPT !.fullyNormalised = TRUE], atom.args, <<scopeID>>)
    IN [r.st EXCEPT !.clauseElements = Append(@, Element(name, r.vars))]

\* a variant: the atom's element is appended before its arguments are normalised
addClauseAtomElementFirst(st, qualifier, scopeID, atom) ==
    LET name == <<qualifier>> \o atom.name
        r == normaliseArguments(st, atom.args, <<scopeID>>)
        before == Len(st.clauseElements)
        emitted == SubSeq(r.st.clauseElements, before + 1, Len(r.st.clauseElements))
    IN [r.st EXCEPT !.clauseElements =
            st.clauseElements \o <<Element(name, r.vars)>> \o emitted]

\* lines 24-35
addClauseAtom(st, qualifier, scopeID, atom) ==
    LET name == <<qualifier>> \o atom.name
        r == normaliseArguments(st, atom.args, <<scopeID>>)
    IN [r.st EXCEPT !.clauseElements = Append(@, Element(name, r.vars))]

\* lines 42-49
addClauseBinaryConstraint(st, scopeID, bc) ==
    LET name == <<"@min:operator", toBinaryConstraintSymbol(bc.op)>>
        l == normaliseArgument(st, bc.lhs)
        r == normaliseArgument(l.st, bc.rhs)
    IN [r.st EXCEPT !.clauseElements =
            Append(@, Element(name, <<scopeID, l.tok, r.tok>>))]

\* a variant: the unhandled literal is flagged and skipped, no element is emitted
addClauseUnhandledLiteralDropped(st, scopeID, lit) ==
    [st EXCEPT !.fullyNormalised = FALSE]

\* lines 50-58
addClauseUnhandledLiteral(st, scopeID, lit) ==
    LET qualifier == "@min:unhandled:lit:" \o scopeID
    IN [st EXCEPT !.fullyNormalised = FALSE,
                  !.clauseElements = Append(@, Element(<<qualifier, lit.text>>, <<>>))]

\* a variant: a negated atom filed under the qualifier of a plain atom
addClauseBodyLiteralNegAsAtom(st, scopeID, lit) ==
    IF lit.kind = "AstAtom" THEN addClauseAtom(st, "@min:atom", scopeID, lit)
    ELSE IF lit.kind = "AstNegation" THEN addClauseAtom(st, "@min:atom", scopeID, lit.atom)
    ELSE IF lit.kind = "AstBinaryConstraint" THEN addClauseBinaryConstraint(st, scopeID, lit)
    ELSE addClauseUnhandledLiteral(st, scopeID, lit)

\* lines 37-59
addClauseBodyLiteral(st, scopeID, lit) ==
    IF lit.kind = "AstAtom" THEN addClauseAtom(st, "@min:atom", scopeID, lit)
    ELSE IF lit.kind = "AstNegation" THEN addClauseAtom(st, "@min:neg", scopeID, lit.atom)
    ELSE IF lit.kind = "AstBinaryConstraint" THEN addClauseBinaryConstraint(st, scopeID, lit)
    ELSE addClauseUnhandledLiteral(st, scopeID, lit)

\* the loop over an aggregator's body (lines 112-114)
addBodyLiterals(st, scopeID, lits) ==
    IF lits = <<>> THEN st
    ELSE addBodyLiterals(addClauseBodyLiteral(st, scopeID, Head(lits)), scopeID, Tail(lits))

\* a variant: the head's params start with the scope id, as an atom's do
addClauseHeadWithScope(st, clause) ==
    LET name == <<"@min:head">>
        r == normaliseArguments(st, clause.head.args, <<"@min:scope:0">>)
    IN [r.st EXCEPT !.clauseElements = Append(@, Element(name, r.vars))]

\* lines 11-16: the head element
addClauseHead(st, clause) ==
    LET name == <<"@min:head">>
        r == normaliseArguments(st, clause.head.args, <<>>)
    IN [r.st EXCEPT !.clauseElements = Append(@, Element(name, r.vars))]

\* the object together with the static counter, as the member functions see them
WithStatic(obj, cnt) ==
    [clauseElements |-> obj.clauseElements, constants |-> obj.constants,
     variables |-> obj.variables, fullyNormalised |-> obj.fullyNormalised,
     aggrScopeCount |-> obj.aggrScopeCount, countUnnamed |-> cnt]

Object(st) ==
    [clauseElements |-> st.clauseElements, constants |-> st.constants,
     variables |-> st.variables, fullyNormalised |-> st.fullyNormalised,
     aggrScopeCount |-> st.aggrScopeCount]

-----------------------------------------------------------------------------
(* The argument nodes of the AST (AstArgument.h) as objects on a heap.  A  *)
(* node is a record of its class (kind), its source location (loc) and the *)
(* members of the class; a std::unique_ptr member is the address of the    *)
(* node it owns, NoNode for nullptr, a vector of them a sequence.          *)

NoNode == 0
NoOperation == [op |-> "none"]

\* AstNode: every node carries a SrcLoc, default constructed
NoSrcLoc == 0
setSrcLoc(node, l) == [node EXCEPT !.loc = l]
getSrcLoc(node) == node.loc

\* SymbolTable::lookup: the index a string is interned under
SymbolTable == <<"", "0", "1", "a">>
lookup(c) == (CHOOSE i \in DOMAIN SymbolTable : SymbolTable[i] = c) - 1

\* getFunctorOpArity
getFunctorOpArity(op) ==
    CASE op \in {"ORD", "NEG"} -> 1
      [] op \in {"ADD", "CAT"} -> 2
      [] op \in {"SUBSTR"} -> 3

\* the constructors
AstVariable(n) == [kind |-> "AstVariable", loc |-> NoSrcLoc, name |-> n]
AstUnnamedVariable == [kind |-> "AstUnnamedVariable", loc |-> NoSrcLoc]
AstCounter == [kind |-> "AstCounter", loc |-> NoSrcLoc]
AstStringConstant(index) == [kind |-> "AstStringConstant", loc |-> NoSrcLoc, idx |-> index]
AstNumberConstant(num) == [kind |-> "AstNumberConstant", loc |-> NoSrcLoc, idx |-> num]
AstNullConstant == [kind |-> "AstNullConstant", loc |-> NoSrcLoc, idx |-> 0]
\* lines 322-330 without the assertion, which is AstBuiltInFunctorAssertion
AstBuiltInFunctor(class, op, operands) ==
    [kind |-> class, loc |-> NoSrcLoc, op |-> op, args |-> operands]
AstBuiltInFunctorAssertion(op, operands) == getFunctorOpArity(op) = Len(operands)
AstUserDefinedFunctor(name) ==
    [kind |-> "AstUserDefinedFunctor", loc |-> NoSrcLoc, name |-> name, args |-> <<>>]
AstRecordInit == [kind |-> "AstRecordInit", loc |-> NoSrcLoc, args |-> <<>>]
AstTypeCast(value, type) ==
    [kind |-> "AstTypeCast", loc |-> NoSrcLoc, value |-> value, type |-> type]
AstAggregator(fun) ==
    [kind |-> "AstAggregator", loc |-> NoSrcLoc, fun |-> fun, expr |-> NoNode, body |-> <<>>]
AstSubroutineArgument(n) == [kind |-> "AstSubroutineArgument", loc |-> NoSrcLoc, number |-> n]
\* the literals an aggregator's body holds
AstAtom(name) == [kind |-> "AstAtom", loc |-> NoSrcLoc, name |-> name, args |-> <<>>]
AstNegation(atom) == [kind |-> "AstNegation", loc |-> NoSrcLoc, atom |-> atom]
AstBinaryConstraint(op, lhs, rhs) ==
    [kind |-> "AstBinaryConstraint", loc |-> NoSrcLoc, op |-> op, lhs |-> lhs, rhs |-> rhs]

IntrinsicFunctors == {"AstUnaryFunctor", "AstBinaryFunctor", "AstTernaryFunctor"}
Literals == {"AstAtom", "AstNegation", "AstBinaryConstraint"}

\* new: the node is placed at a fresh address
New(h, node) == [h |-> Append(h, node), at |-> Len(h) + 1]

\* add (lines 588-590, 646-648), addBodyLiteral (798-800), setTargetExpression (782-784)
add(h, a, arg) == [h EXCEPT ![a].args = Append(@, arg)]
addBodyLiteral(h, a, lit) == [h EXCEPT ![a].body = Append(@, lit)]
setTargetExpression(h, a, arg) == [h EXCEPT ![a].expr = arg]
\* clearBodyLiterals (lines 794-796)
clearBodyLiterals(h, a) == [h EXCEPT ![a].body = <<>>]
\* setName (lines 106-108, 568-570)
setName(h, a, name) == [h EXCEPT ![a].name = name]

\* the parser: the nodes of an expression or literal, built leaves first
RECURSIVE Build(_, _)
RECURSIVE BuildAll(_, _, _)
BuildAll(h, trees, ats) ==
    IF trees = <<>> THEN [h |-> h, ats |-> ats]
    ELSE LET r == Build(h, Head(trees))
         IN BuildAll(r.h, Tail(trees), Append(ats, r.at))

Build(h, t) ==
    CASE t.kind = "AstVariable" -> New(h, AstVariable(t.name))
      [] t.kind = "AstUnnamedVariable" -> New(h, AstUnnamedVariable)
      [] t.kind = "AstCounter" -> New(h, AstCounter)
      [] t.kind = "AstStringConstant" -> New(h, AstStringConstant(lookup(t.str)))
      [] t.kind = "AstNumericConstant" -> New(h, AstNumberConstant(t.num))
      [] t.kind = "AstNilConstant" -> New(h, AstNullConstant)
      [] t.kind = "AstSubroutineArgument" -> New(h, AstSubroutineArgument(t.number))
      [] t.kind \in IntrinsicFunctors ->
            LET r == BuildAll(h, t.args, <<>>)
            IN New(r.h, AstBuiltInFunctor(t.kind, t.op, r.ats))
      [] t.kind = "AstUserDefinedFunctor" ->
            LET r == BuildAll(h, t.args, <<>>)
            IN New(r.h, [AstUserDefinedFunctor(t.name) EXCEPT !.args = r.ats])
      [] t.kind = "AstRecordInit" ->
            LET r == BuildAll(h, t.args, <<>>)
            IN New(r.h, [AstRecordInit EXCEPT !.args = r.ats])
      [] t.kind = "AstTypeCast" ->
            LET r == Build(h, t.value)
            IN New(r.h, AstTypeCast(r.at, t.type))
      [] t.kind = "AstAggregator" ->
            LET e == BuildAll(h, t.target, <<>>)
                b == BuildAll(e.h, t.body, <<>>)
            IN New(b.h, [AstAggregator(t.op) EXCEPT
                            !.expr = IF e.ats = <<>> THEN NoNode ELSE e.ats[1],
                            !.body = b.ats])
      [] t.kind = "AstAtom" ->
            LET r == BuildAll(h, t.args, <<>>)
            IN New(r.h, [AstAtom(t.name) EXCEPT !.args = r.ats])
      [] t.kind = "AstNegation" ->
            LET r == Build(h, t.atom)
            IN New(r.h, AstNegation(r.at))
      [] t.kind = "AstBinaryConstraint" ->
            LET l == Build(h, t.lhs)
                r == Build(l.h, t.rhs)
            IN New(r.h, AstBinaryConstraint(t.op, l.at, r.at))

-----------------------------------------------------------------------------
(* clone: every class builds a new node of its class from clones of its    *)
(* children and copies the source location.                                *)

RECURSIVE clone(_, _)
RECURSIVE cloneAll(_, _, _)

\* the loops "for cur : args  res->args.push_back(cur->clone())"
cloneAll(h, ats, acc) ==
    IF ats = <<>> THEN [h |-> h, ats |-> acc]
    ELSE LET r == clone(h, Head(ats))
         IN cloneAll(r.h, Tail(ats), Append(acc, r.at))

\* lines 121-125
cloneVariable(h, a) == New(h, setSrcLoc(AstVariable(h[a].name), getSrcLoc(h[a])))
\* lines 155-159
cloneUnnamedVariable(h, a) == New(h, setSrcLoc(AstUnnamedVariable, getSrcLoc(h[a])))
\* lines 188-192
cloneCounter(h, a) == New(h, setSrcLoc(AstCounter, getSrcLoc(h[a])))
\* lines 259-263
cloneStringConstant(h, a) == New(h, setSrcLoc(AstStringConstant(h[a].idx), getSrcLoc(h[a])))
\* lines 279-283
cloneNumberConstant(h, a) == New(h, setSrcLoc(AstNumberConstant(h[a].idx), getSrcLoc(h[a])))
\* lines 299-303
cloneNullConstant(h, a) == New(h, setSrcLoc(AstNullConstant, getSrcLoc(h[a])))
\* lines 398-402, 465-470, 516-522: the operands are cloned one by one
cloneBuiltInFunctor(h, a) ==
    LET r == cloneAll(h, h[a].args, <<>>)
    IN New(r.h, setSrcLoc(AstBuiltInFunctor(h[a].kind, h[a].op, r.ats), getSrcLoc(h[a])))

\* a variant: the new functor's args point at the original's arguments
cloneUserDefinedFunctorShallow(h, a) ==
    New(h, setSrcLoc([AstUserDefinedFunctor(h[a].name) EXCEPT !.args = h[a].args],
                     getSrcLoc(h[a])))

\* lines 598-606
cloneUserDefinedFunctor(h, a) ==
    LET r == cloneAll(h, h[a].args, <<>>)
        res == New(r.h, [AstUserDefinedFunctor("") EXCEPT !.args = r.ats])
    IN [h |-> setName([res.h EXCEPT ![res.at] = setSrcLoc(@, getSrcLoc(h[a]))],
                      res.at, h[a].name),
        at |-> res.at]
\* lines 659-666
cloneRecordInit(h, a) ==
    LET r == cloneAll(h, h[a].args, <<>>)
    IN New(r.h, setSrcLoc([AstRecordInit EXCEPT !.args = r.ats], getSrcLoc(h[a])))
\* lines 727-731
cloneTypeCast(h, a) ==
    LET r == clone(h, h[a].value)
    IN New(r.h, setSrcLoc(AstTypeCast(r.at, h[a].type), getSrcLoc(h[a])))
\* declared at line 811: the target expression if there is one, then the body
cloneAggregator(h, a) ==
    LET e == IF h[a].expr # NoNode THEN clone(h, h[a].expr) ELSE [h |-> h, at |-> NoNode]
        b == cloneAll(e.h, h[a].body, <<>>)
    IN New(b.h, setSrcLoc([AstAggregator(h[a].fun) EXCEPT !.expr = e.at, !.body = b.ats],
                          getSrcLoc(h[a])))
\* lines 854-858
cloneSubroutineArgument(h, a) ==
    New(h, setSrcLoc(AstSubroutineArgument(h[a].number), getSrcLoc(h[a])))
\* the literals
cloneAtom(h, a) ==
    LET r == cloneAll(h, h[a].args, <<>>)
    IN New(r.h, setSrcLoc([AstAtom(h[a].name) EXCEPT !.args = r.ats], getSrcLoc(h[a])))
cloneNegation(h, a) ==
    LET r == clone(h, h[a].atom)
    IN New(r.h, setSrcLoc(AstNegation(r.at), getSrcLoc(h[a])))
cloneBinaryConstraint(h, a) ==
    LET l == clone(h, h[a].lhs)
        r == clone(l.h, h[a].rhs)
    IN New(r.h, setSrcLoc(AstBinaryConstraint(h[a].op, l.at, r.at), getSrcLoc(h[a])))

\* the virtual call
clone(h, a) ==
    CASE h[a].kind = "AstVariable" -> cloneVariable(h, a)
      [] h[a].kind = "AstUnnamedVariable" -> cloneUnnamedVariable(h, a)
      [] h[a].kind = "AstCounter" -> cloneCounter(h, a)
      [] h[a].kind = "AstStringConstant" -> cloneStringConstant(h, a)
      [] h[a].kind = "AstNumberConstant" -> cloneNumberConstant(h, a)
      [] h[a].kind = "AstNullConstant" -> cloneNullConstant(h, a)
      [] h[a].kind \in IntrinsicFunctors -> cloneBuiltInFunctor(h, a)
      [] h[a].kind = "AstUserDefinedFunctor" -> cloneUserDefinedFunctor(h, a)
      [] h[a].kind = "AstRecordInit" -> cloneRecordInit(h, a)
      [] h[a].kind = "AstTypeCast" -> cloneTypeCast(h, a)
      [] h[a].kind = "AstAggregator" -> cloneAggregator(h, a)
      [] h[a].kind = "AstSubroutineArgument" -> cloneSubroutineArgument(h, a)
      [] h[a].kind = "AstAtom" -> cloneAtom(h, a)
      [] h[a].kind = "AstNegation" -> cloneNegation(h, a)
      [] h[a].kind = "AstBinaryConstraint" -> cloneBinaryConstraint(h, a)

-----------------------------------------------------------------------------
(* Equality.  operator== of AstNode calls the class's equal on two nodes   *)
(* of one class; equal compares the members and, through operator==, the   *)
(* children.                                                               *)

RECURSIVE Equals(_, _, _)

\* equal_targets: two vectors of owned nodes, pointwise
equal_targets(h, as, bs) ==
    /\ Len(as) = Len(bs)
    /\ \A i \in DOMAIN as : Equals(h, as[i], bs[i])
\* equal_ptr: two owned nodes, each of which may be absent
equal_ptr(h, a, b) ==
    \/ a = NoNode /\ b = NoNode
    \/ a # NoNode /\ b # NoNode /\ Equals(h, a, b)

\* a variant: two variables at different source locations are different
equalVariableAndSrcLoc(h, a, b) == h[a].name = h[b].name /\ h[a].loc = h[b].loc

\* lines 134-138
equalVariable(h, a, b) == h[a].name = h[b].name
\* lines 168-171
equalUnnamedVariable(h, a, b) == TRUE
\* lines 201-204
equalCounter(h, a, b) == TRUE
\* lines 230-234
equalConstant(h, a, b) == h[a].idx = h[b].idx
\* lines 413-417
equalUnaryFunctor(h, a, b) == h[a].op = h[b].op /\ Equals(h, h[a].args[1], h[b].args[1])
\* lines 482-486
equalBinaryFunctor(h, a, b) ==
    /\ h[a].op = h[b].op
    /\ Equals(h, h[a].args[1], h[b].args[1])
    /\ Equals(h, h[a].args[2], h[b].args[2])
\* lines 535-540
equalTernaryFunctor(h, a, b) ==
    /\ h[a].op = h[b].op
    /\ Equals(h, h[a].args[1], h[b].args[1])
    /\ Equals(h, h[a].args[2], h[b].args[2])
    /\ Equals(h, h[a].args[3], h[b].args[3])

\* a variant: two user-defined functors are compared by name alone
equalUserDefinedFunctorByName(h, a, b) == h[a].name = h[b].name

\* lines 626-630
equalUserDefinedFunctor(h, a, b) ==
    h[a].name = h[b].name /\ equal_targets(h, h[a].args, h[b].args)
\* lines 686-690
equalRecordInit(h, a, b) == equal_targets(h, h[a].args, h[b].args)
\* lines 740-744
equalTypeCast(h, a, b) == h[a].type = h[b].type /\ Equals(h, h[a].value, h[b].value)
\* lines 825-829
equalAggregator(h, a, b) ==
    /\ h[a].fun = h[b].fun
    /\ equal_ptr(h, h[a].expr, h[b].expr)
    /\ equal_targets(h, h[a].body, h[b].body)
\* lines 867-871
equalSubroutineArgument(h, a, b) == h[a].number = h[b].number
\* the literals
equalAtom(h, a, b) == h[a].name = h[b].name /\ equal_targets(h, h[a].args, h[b].args)
equalNegation(h, a, b) == Equals(h, h[a].atom, h[b].atom)
equalBinaryConstraint(h, a, b) ==
    /\ h[a].op = h[b].op
    /\ Equals(h, h[a].lhs, h[b].lhs)
    /\ Equals(h, h[a].rhs, h[b].rhs)

\* the virtual call a.equal(b), a and b of one class
equal(h, a, b) ==
    CASE h[a].kind = "AstVariable" -> equalVariable(h, a, b)
      [] h[a].kind = "AstUnnamedVariable" -> equalUnnamedVariable(h, a, b)
      [] h[a].kind = "AstCounter" -> equalCounter(h, a, b)
      [] h[a].kind \in {"AstStringConstant", "AstNumberConstant", "AstNullConstant"} ->
            equalConstant(h, a, b)
      [] h[a].kind = "AstUnaryFunctor" -> equalUnaryFunctor(h, a, b)
      [] h[a].kind = "AstBinaryFunctor" -> equalBinaryFunctor(h, a, b)
      [] h[a].kind = "AstTernaryFunctor" -> equalTernaryFunctor(h, a, b)
      [] h[a].kind = "AstUserDefinedFunctor" -> equalUserDefinedFunctor(h, a, b)
      [] h[a].kind = "AstRecordInit" -> equalRecordInit(h, a, b)
      [] h[a].kind = "AstTypeCast" -> equalTypeCast(h, a, b)
      [] h[a].kind = "AstAggregator" -> equalAggregator(h, a, b)
      [] h[a].kind = "AstSubroutineArgument" -> equalSubroutineArgument(h, a, b)
      [] h[a].kind = "AstAtom" -> equalAtom(h, a, b)
      [] h[a].kind = "AstNegation" -> equalNegation(h, a, b)
      [] h[a].kind = "AstBinaryConstraint" -> equalBinaryConstraint(h, a, b)

\* AstNode::operator==: the same object, or two of one class that are equal
Equals(h, a, b) == a = b \/ (h[a].kind = h[b].kind /\ equal(h, a, b))

-----------------------------------------------------------------------------
(* apply and the node mapper.  A rewrite in progress is the record ap: the *)
(* heap, the calls of the mapper so far (by: the node whose apply made the *)
(* call, arg: the child moved in, res: the node returned), failed: how the *)
(* mapper failed ("" while it has not), res: what the last call returned.  *)

NewRewrite(h) == [h |-> h, calls |-> <<>>, failed |-> "", res |-> NoNode]

\* the mappers of the passes modelled here.  xform: "id" returns the node it is
\* given; "swap" renames X to Y and Y to X and rewrites the node's children with
\* itself; "zero" puts the number 0 in place of every argument.  failAt = n > 0: the
\* n-th call fails, by an exception ("throw") or by returning no node ("null").
Swapped(name) == IF name = "X" THEN "Y" ELSE IF name = "Y" THEN "X" ELSE name

RECURSIVE apply(_, _, _)
RECURSIVE callMapper(_, _, _, _)

\* map(std::move(child)), called by the apply of node by
callMapper(ap, m, by, c) ==
    LET call(res) == [by |-> by, arg |-> c, res |-> res]
    IN IF m.failAt = Len(ap.calls) + 1
       THEN [ap EXCEPT !.calls = Append(@, call(NoNode)), !.failed = m.failure,
                       !.res = NoNode]
       ELSE CASE m.xform = "id" ->
                   [ap EXCEPT !.calls = Append(@, call(c)), !.res = c]
              [] m.xform = "zero" ->
                   IF ap.h[c].kind \in Literals
                   THEN [ap EXCEPT !.calls = Append(@, call(c)), !.res = c]
                   ELSE LET r == New(ap.h, AstNumberConstant(0))
                        IN [ap EXCEPT !.h = r.h, !.calls = Append(@, call(r.at)),
                                      !.res = r.at]
              [] m.xform = "swap" ->
                   LET renamed == IF ap.h[c].kind = "AstVariable"
                                  THEN setName(ap.h, c, Swapped(ap.h[c].name))
                                  ELSE ap.h
                       r == apply([ap EXCEPT !.h = renamed, !.calls = Append(@, call(c))],
                                  m, c)
                   IN [r EXCEPT !.res = c]

\* a variant: the child is moved into the mapper and the result is never stored
applySlotMovedOut(ap, m, a, f) ==
    callMapper([ap EXCEPT !.h[a][f] = NoNode], m, a, ap.h[a][f])

\* slot = map(std::move(slot)) for the member f of node a: the slot is emptied by
\* the move, the mapper runs, its result is stored unless it failed
applySlot(ap, m, a, f) ==
    LET r == callMapper([ap EXCEPT !.h[a][f] = NoNode], m, a, ap.h[a][f])
    IN IF r.failed # "" THEN r ELSE [r EXCEPT !.h[a][f] = r.res]

\* the same for element i of the vector member f of node a
applyElement(ap, m, a, f, i) ==
    LET r == callMapper([ap EXCEPT !.h[a][f][i] = NoNode], m, a, ap.h[a][f][i])
    IN IF r.failed # "" THEN r ELSE [r EXCEPT !.h[a][f][i] = r.res]

\* a variant: the loop runs from the last element to the first
RECURSIVE applyVectorBackwards(_, _, _, _, _)
applyVectorBackwards(ap, m, a, f, i) ==
    LET j == Len(ap.h[a][f]) + 1 - i
    IN IF j < 1 \/ ap.failed # "" THEN ap
       ELSE applyVectorBackwards(applyElement(ap, m, a, f, j), m, a, f, i + 1)

\* a variant: the mapper's result is dropped, the slot keeps what it held
RECURSIVE applyVectorDropping(_, _, _, _, _)
applyVectorDropping(ap, m, a, f, i) ==
    IF i > Len(ap.h[a][f]) \/ ap.failed # "" THEN ap
    ELSE applyVectorDropping(callMapper(ap, m, a, ap.h[a][f][i]), m, a, f, i + 1)

\* the loops of lines 368-370, 610-612, 670-672, 818-820, from element i on
RECURSIVE applyVector(_, _, _, _, _)
applyVector(ap, m, a, f, i) ==
    IF i > Len(ap.h[a][f]) \/ ap.failed # "" THEN ap
    ELSE applyVector(applyElement(ap, m, a, f, i), m, a, f, i + 1)

\* lines 128-130, 162-164, 195-197, 224-226, 861-863: no sub-nodes to consider
applyLeaf(ap, m, a) == ap
\* lines 366-371
applyBuiltInFunctor(ap, m, a) == applyVector(ap, m, a, "args", 1)
\* lines 608-613
applyUserDefinedFunctor(ap, m, a) == applyVector(ap, m, a, "args", 1)
\* lines 668-673
applyRecordInit(ap, m, a) == applyVector(ap, m, a, "args", 1)
\* lines 733-736
applyTypeCast(ap, m, a) == applySlot(ap, m, a, "value")
\* lines 813-821
applyAggregator(ap, m, a) ==
    LET r == IF ap.h[a].expr # NoNode THEN applySlot(ap, m, a, "expr") ELSE ap
    IN IF r.failed # "" THEN r ELSE applyVector(r, m, a, "body", 1)
\* the literals
applyAtom(ap, m, a) == applyVector(ap, m, a, "args", 1)
applyNegation(ap, m, a) == applySlot(ap, m, a, "atom")
applyBinaryConstraint(ap, m, a) ==
    LET r == applySlot(ap, m, a, "lhs")
    IN IF r.failed # "" THEN r ELSE applySlot(r, m, a, "rhs")

\* the virtual call
apply(ap, m, a) ==
    CASE ap.h[a].kind \in IntrinsicFunctors -> applyBuiltInFunctor(ap, m, a)
      [] ap.h[a].kind = "AstUserDefinedFunctor" -> applyUserDefinedFunctor(ap, m, a)
      [] ap.h[a].kind = "AstRecordInit" -> applyRecordInit(ap, m, a)
      [] ap.h[a].kind = "AstTypeCast" -> applyTypeCast(ap, m, a)
      [] ap.h[a].kind = "AstAggregator" -> applyAggregator(ap, m, a)
      [] ap.h[a].kind = "AstAtom" -> applyAtom(ap, m, a)
      [] ap.h[a].kind = "AstNegation" -> applyNegation(ap, m, a)
      [] ap.h[a].kind = "AstBinaryConstraint" -> applyBinaryConstraint(ap, m, a)
      [] OTHER -> applyLeaf(ap, m, a)

-----------------------------------------------------------------------------
(* The programs the analysis is run on.                                    *)

MaxClauses == 2
MaxBody == 2
MaxNum == 1

X == Var("X")
Y == Var("Y")
S(a) == Atom(<<"S">>, <<a>>)
T(a) == Atom(<<"T">>, <<a>>)
R(a) == Atom(<<"R">>, <<a>>)

SeqsUpTo(set, n) == UNION {[1..k -> set] : k \in 0..n}

\* R(_) over every body of up to MaxBody literals, in every order
GenLits == {S(X), T(Unnamed), Neg(T(Num(1)))}
GenClauses == {Clause(R(Unnamed), b) : b \in SeqsUpTo(GenLits, MaxBody)}

\* R(X) :- S(X).
Scenario1 == Clause(R(X), <<S(X)>>)
\* R(1) :- S("a"), X = 2.
Scenario2 == Clause(R(Num(1)), <<S(Str("a")), BinCon("EQ", X, Num(2))>>)
\* R(X) :- !S(X).
Scenario3 == Clause(R(X), <<Neg(S(X))>>)
\* R(_) :- S(_).
Scenario4 == Clause(R(Unnamed), <<S(Unnamed)>>)
\* R(Y) :- Y = count : { S(X) }.
Scenario5 == Clause(R(Y), <<BinCon("EQ", Y, Aggr("count", <<>>, <<S(X)>>))>>)

\* the programs of Spec: bodies in every order, with and without unnamed variables
ClausePool ==
    GenClauses \cup
    { Scenario1, Scenario2, Scenario3, Scenario4,
      \* R(1) :- X = 2, S("a").
      Clause(R(Num(1)), <<BinCon("EQ", X, Num(2)), S(Str("a"))>>),
      \* R(X) :- S(_), T(_).        R(X) :- T(_), S(_).
      Clause(R(X), <<S(Unnamed), T(Unnamed)>>),
      Clause(R(X), <<T(Unnamed), S(Unnamed)>>),
      \* R($) :- true, S($).        R($) :- S($), true.
      Clause(R(Counter), <<OtherLit("true"), S(Counter)>>),
      Clause(R(Counter), <<S(Counter), OtherLit("true")>> ) }

\* the programs of SpecAggr: aggregators nested, side by side, in targets, in heads
AggrClausePool ==
    { Scenario1, Scenario2, Scenario3, Scenario4, Scenario5,
      \* R(X) :- X = sum Y : { S(Y), Y = count : { T(_) } }.
      Clause(R(X), <<BinCon("EQ", X, Aggr("sum", <<Y>>,
                 <<S(Y), BinCon("EQ", Y, Aggr("count", <<>>, <<T(Unnamed)>>))>>))>>),
      \* R(X, Y) :- X = min Y : { S(Y) }, Y = max X : { !T(X), X < 3 }.
      Clause(Atom(<<"R">>, <<X, Y>>),
             <<BinCon("EQ", X, Aggr("min", <<Y>>, <<S(Y)>>)),
               BinCon("EQ", Y, Aggr("max", <<X>>, <<Neg(T(X)), BinCon("LT", X, Num(3))>>))>>),
      \* R(X) :- X = sum (count : { T(_) }) : { S(_) }.
      Clause(R(X), <<BinCon("EQ", X,
                 Aggr("sum", <<Aggr("count", <<>>, <<T(Unnamed)>>)>>, <<S(Unnamed)>>))>>),
      \* R(count : { S(_) }, _).
      Clause(Atom(<<"R">>, <<Aggr("count", <<>>, <<S(Unnamed)>>), Unnamed>>), <<>>),
      \* R(_) :- S(min _ : { T(_) }, _).
      Clause(R(Unnamed),
             <<Atom(<<"S">>, <<Aggr("min", <<Unnamed>>, <<T(Unnamed)>>), Unnamed>>)>>),
      \* R($) :- X = count : { true, S($) }, S(X).
      Clause(R(Counter),
             <<BinCon("EQ", X, Aggr("count", <<>>, <<OtherLit("true"), S(Counter)>>)), S(X)>>),
      \* myB.R(X, nil) :- myB.S().
      Clause(Atom(<<"myB", "R">>, <<X, Nil>>), <<Atom(<<"myB", "S">>, <<>>)>>),
      \* R(X) :- X = count : { S(count : { T(Y) }) }, Y = count : { T(X) }.
      Clause(R(X),
             <<BinCon("EQ", X, Aggr("count", <<>>,
                  <<S(Aggr("count", <<>>, <<T(Y)>>))>>)),
               BinCon("EQ", Y, Aggr("count", <<>>, <<T(X)>>))>>) }

\* the programs of SpecReach: those of SpecAggr and clauses with unnamed variables,
\* literals and aggregators inside functors, records and casts
ReachClausePool ==
    AggrClausePool \cup
    { \* R(X) :- X = @f(Y, _), S(_).
      Clause(R(X), <<BinCon("EQ", X, UserDefinedFunctor("f", <<Y, Unnamed>>)), S(Unnamed)>>),
      \* R(X) :- X = (1 + count : { S(_) }), !T(X).
      Clause(R(X), <<BinCon("EQ", X, BinaryFunctor("ADD", Num(1),
                                         Aggr("count", <<>>, <<S(Unnamed)>>))),
                     Neg(T(X))>>),
      \* R(X) :- X = sum (@f(min Y : { S(Y) })) : { T(count : { S(X) }) }.
      Clause(R(X), <<BinCon("EQ", X,
                        Aggr("sum", <<UserDefinedFunctor("f",
                                          <<Aggr("min", <<Y>>, <<S(Y)>>)>>)>>,
                             <<T(Aggr("count", <<>>, <<S(X)>>))>>))>>),
      \* R([_]) :- S(_ as T), T(_).
      Clause(R(RecordInit(<<Unnamed>>)), <<S(TypeCast(Unnamed, "T")), T(Unnamed)>>) }

\* the programs of SpecConst: R(c) :- S(d). for constants c, d of every kind
Strings == {"", "0", "1"}
ConstArgs == {Num(n) : n \in 0..MaxNum} \cup {Str(str) : str \in Strings} \cup {Nil}
ConstClausePool == {Clause(R(c), <<S(d)>>) : c \in ConstArgs, d \in ConstArgs}

\* the programs of SpecUnhandled: arguments and literals the normaliser has no case
\* for, in heads, atoms, negations, constraints and aggregators, before and after
\* ones it handles
UnhandledClausePool ==
    { Scenario1, Scenario2, Scenario5,
      \* R($, X) :- S(X).
      Clause(Atom(<<"R">>, <<Counter, X>>), <<S(X)>>),
      \* R(X) :- S(-X, 1), T(X).
      Clause(R(X), <<Atom(<<"S">>, <<UnaryFunctor("NEG", X), Num(1)>>), T(X)>>),
      \* R(X) :- !S((X+1), _), T(substr("a",0,X)).
      Clause(R(X), <<Neg(Atom(<<"S">>, <<BinaryFunctor("ADD", X, Num(1)), Unnamed>>)),
                     T(TernaryFunctor("SUBSTR", Str("a"), Num(0), X))>>),
      \* R(X) :- X = @f(Y, _), S(Y).
      Clause(R(X), <<BinCon("EQ", X, UserDefinedFunctor("f", <<Y, Unnamed>>)), S(Y)>>),
      \* R([X, nil]) :- S(X as T).
      Clause(R(RecordInit(<<X, Nil>>)), <<S(TypeCast(X, "T"))>>),
      \* R(arg_0) :- S(arg_1), T(_).
      Clause(R(SubroutineArgument(0)), <<S(SubroutineArgument(1)), T(Unnamed)>>),
      \* R(X) :- true, S(X).
      Clause(R(X), <<OtherLit("true"), S(X)>>),
      \* R(X) :- S(X), false.
      Clause(R(X), <<S(X), OtherLit("false")>>),
      \* R(X) :- X = sum (Y+1) : { S(Y) }, T(X).
      Clause(R(X), <<BinCon("EQ", X, Aggr("sum", <<BinaryFunctor("ADD", Y, Num(1))>>,
                                          <<S(Y)>>)), T(X)>>),
      \* R(X) :- X = count : { S([Y]), true, T(Y) }.
      Clause(R(X), <<BinCon("EQ", X, Aggr("count", <<>>,
                        <<S(RecordInit(<<Y>>)), OtherLit("true"), T(Y)>>))>>),
      \* R(X) :- S(@f(count : { T(_) })), T(X).
      Clause(R(X), <<S(UserDefinedFunctor("f", <<Aggr("count", <<>>, <<T(Unnamed)>>)>>)),
                     T(X)>>),
      \* R(X) :- X = count : { T(Y) }, S(Y).
      Clause(R(X), <<BinCon("EQ", X, Aggr("count", <<>>, <<T(Y)>>)), S(Y)>>) }

\* the programs of SpecOrder: aggregators in every place an argument can stand
OrderClausePool ==
    { Scenario2, Scenario5,
      \* R(count : { S(_) }, 1) :- T("a").
      Clause(Atom(<<"R">>, <<Aggr("count", <<>>, <<S(Unnamed)>>), Num(1)>>),
             <<T(Str("a"))>>),
      \* R(X) :- S(X, sum Y : { T(Y), Y < 1 }), T(nil).
      Clause(R(X), <<Atom(<<"S">>, <<X, Aggr("sum", <<Y>>,
                                              <<T(Y), BinCon("LT", Y, Num(1))>>)>>),
                     T(Nil)>>),
      \* R(X) :- X = max (min Y : { S(Y) }) : { T(X) }.
      Clause(R(X), <<BinCon("EQ", X, Aggr("max", <<Aggr("min", <<Y>>, <<S(Y)>>)>>,
                                          <<T(X)>>))>>),
      \* R(X) :- X = count : { S(Y), Y = sum Z : { T(Z) } }.
      Clause(R(X), <<BinCon("EQ", X,
                        Aggr("count", <<>>,
                             <<S(Y), BinCon("EQ", Y, Aggr("sum", <<Var("Z")>>,
                                                          <<T(Var("Z"))>>))>>))>>),
      \* R(X) :- X = (1 + count : { S(_) }), T(X).
      Clause(R(X), <<BinCon("EQ", X, BinaryFunctor("ADD", Num(1),
                                         Aggr("count", <<>>, <<S(Unnamed)>>))),
                     T(X)>>),
      \* R(X) :- !S(count : { T(X), true }, [X]).
      Clause(R(X), <<Neg(Atom(<<"S">>, <<Aggr("count", <<>>, <<T(X), OtherLit("true")>>),
                                         RecordInit(<<X>>)>>))>>),
      \* R(X) :- S(X), T(count : { S(X) }, count : { T(_) }).
      Clause(R(X), <<S(X), Atom(<<"T">>, <<Aggr("count", <<>>, <<S(X)>>),
                                           Aggr("count", <<>>, <<T(Unnamed)>>)>>)>>),
      \* R(X) :- X = sum (@f(min Y : { S(Y) })) : { T(X) }.
      Clause(R(X), <<BinCon("EQ", X,
                        Aggr("sum", <<UserDefinedFunctor("f",
                                          <<Aggr("min", <<Y>>, <<S(Y)>>)>>)>>,
                             <<T(X)>>))>>) }

Programs(pool) == SeqsUpTo(pool, MaxClauses)

-----------------------------------------------------------------------------
(* ClauseNormalisationAnalysis::run, one step per clause part.             *)

InitOver(pool) ==
    /\ clauses \in Programs(pool)
    /\ normalisations = <<>>
    /\ countUnnamed = 0
    /\ nc = NewNormalisedClause
    /\ pc = "idle"
    /\ ci = 0
    /\ li = 0
    /\ heap = <<>>
    /\ roots = <<>>
    /\ last = NoOperation
    /\ nops = 0

\* run is called: the loop starts at the first clause (line 126)
CallRun ==
    /\ pc = "idle"
    /\ ci' = 1
    /\ pc' = IF Len(clauses) >= 1 THEN "clause" ELSE "idle"
    /\ UNCHANGED <<clauses, normalisations, countUnnamed, nc, li>>
    /\ UNCHANGED astVars

\* a variant: the assertion of line 127 compiled out, the clause is normalised again
BeginClauseUnchecked ==
    /\ pc = "clause"
    /\ LET st == addClauseHead(WithStatic(NewNormalisedClause, countUnnamed), clauses[ci])
       IN /\ nc' = Object(st)
          /\ countUnnamed' = st.countUnnamed
    /\ li' = 1
    /\ pc' = "body"
    /\ UNCHANGED <<clauses, normalisations, ci>>
    /\ UNCHANGED astVars

\* line 127 holds; the constructor emits the head element (lines 9-16)
BeginClause ==
    /\ pc = "clause"
    /\ ci \notin DOMAIN normalisations
    /\ LET st == addClauseHead(WithStatic(NewNormalisedClause, countUnnamed), clauses[ci])
       IN /\ nc' = Object(st)
          /\ countUnnamed' = st.countUnnamed
    /\ li' = 1
    /\ pc' = "body"
    /\ UNCHANGED <<clauses, normalisations, ci>>
    /\ UNCHANGED astVars

\* line 127 fails: "clause already processed"
AssertFail ==
    /\ pc = "clause"
    /\ ci \in DOMAIN normalisations
    /\ pc' = "aborted"
    /\ UNCHANGED <<clauses, normalisations, countUnnamed, nc, ci, li>>
    /\ UNCHANGED astVars

\* one iteration of the constructor's body loop (lines 19-21)
AddBodyLiteral ==
    /\ pc = "body"
    /\ li <= Len(clauses[ci].body)
    /\ LET st == addClauseBodyLiteral(WithStatic(nc, countUnnamed), "@min:scope:0",
                                      clauses[ci].body[li])
       IN /\ nc' = Object(st)
          /\ countUnnamed' = st.countUnnamed
    /\ li' = li + 1
    /\ UNCHANGED <<clauses, normalisations, pc, ci>>
    /\ UNCHANGED astVars

\* the constructor returns and the result is stored (line 128); next clause
StoreClause ==
    /\ pc = "body"
    /\ li > Len(clauses[ci].body)
    /\ normalisations' = (ci :> nc) @@ normalisations
    /\ nc' = NewNormalisedClause
    /\ ci' = ci + 1
    /\ li' = 0
    /\ pc' = IF ci + 1 <= Len(clauses) THEN "clause" ELSE "idle"
    /\ UNCHANGED <<clauses, countUnnamed>>
    /\ UNCHANGED astVars

Next ==
    \/ CallRun
    \/ BeginClause
    \/ AssertFail
    \/ AddBodyLiteral
    \/ StoreClause

Init == InitOver(ClausePool)
InitAggr == InitOver(AggrClausePool)
InitReach == InitOver(ReachClausePool)
InitConst == InitOver(ConstClausePool)
InitUnhandled == InitOver(UnhandledClausePool)
InitOrder == InitOver(OrderClausePool)

Spec == Init /\ [][Next]_vars
SpecAggr == InitAggr /\ [][Next]_vars
SpecReach == InitReach /\ [][Next]_vars
SpecConst == InitConst /\ [][Next]_vars
SpecUnhandled == InitUnhandled /\ [][Next]_vars
SpecOrder == InitOrder /\ [][Next]_vars

-----------------------------------------------------------------------------
(* Passes over the AST: a pass holds trees (roots), clones them, renames,  *)
(* relocates, extends and rewrites the newest of them, and constructs      *)
(* intrinsic functors.                                                     *)

MaxRoots == 2
MaxOps == 2
MaxLoc == 1
MaxFailAt == 2

\* getChildNodes: one entry per child slot, in declaration order, NoNode for a slot
\* that is empty (res.push_back(cur.get()))
getChildNodesBuiltInFunctor(node) == node.args
getChildNodesUserDefinedFunctor(node) == node.args
getChildNodesRecordInit(node) == node.args
getChildNodesTypeCast(node) == <<node.value>>
\* the target expression if there is one, then the body literals
getChildNodesAggregator(node) ==
    (IF node.expr # NoNode THEN <<node.expr>> ELSE <<>>) \o node.body
getChildNodesAtom(node) == node.args
getChildNodesNegation(node) == <<node.atom>>
getChildNodesBinaryConstraint(node) == <<node.lhs, node.rhs>>

getChildNodes(node) ==
    CASE node.kind \in IntrinsicFunctors -> getChildNodesBuiltInFunctor(node)
      [] node.kind = "AstUserDefinedFunctor" -> getChildNodesUserDefinedFunctor(node)
      [] node.kind = "AstRecordInit" -> getChildNodesRecordInit(node)
      [] node.kind = "AstTypeCast" -> getChildNodesTypeCast(node)
      [] node.kind = "AstAggregator" -> getChildNodesAggregator(node)
      [] node.kind = "AstAtom" -> getChildNodesAtom(node)
      [] node.kind = "AstNegation" -> getChildNodesNegation(node)
      [] node.kind = "AstBinaryConstraint" -> getChildNodesBinaryConstraint(node)
      [] OTHER -> <<>>

\* the nodes of the tree at a, a included: what a visitor reaches through the
\* entries of getChildNodes that are nodes
RECURSIVE Tree(_, _)
Tree(h, a) ==
    {a} \cup UNION {Tree(h, c) : c \in {getChildNodes(h[a])[i] :
                                           i \in DOMAIN getChildNodes(h[a])} \ {NoNode}}

\* the trees the passes start from: every class of argument, and R(@f(X,Y))
AstPool ==
    { X, Unnamed, Counter, Str("a"), Nil, SubroutineArgument(MaxLoc),
      UnaryFunctor("NEG", X),
      BinaryFunctor("ADD", X, Y),
      BinaryFunctor("CAT", UnaryFunctor("ORD", X), Y),
      TernaryFunctor("SUBSTR", Str("a"), Num(0), X),
      UserDefinedFunctor("f", <<X, Y>>),
      UserDefinedFunctor("f", <<>>),
      RecordInit(<<Num(0), Nil, Str(""), Str("0"), Num(1)>>),
      TypeCast(X, "T"),
      Aggr("count", <<>>, <<S(X)>>),
      Aggr("sum", <<Y>>, <<S(Y), BinCon("LT", Y, Num(1)), Neg(T(X))>>),
      Atom(<<"R">>, <<UserDefinedFunctor("f", <<X, Y>>)>>) }

FunctorOps == {"NEG", "ADD", "SUBSTR"}
Names == {"X", "Y"}
Mappers ==
    {[xform |-> x, failAt |-> 0, failure |-> ""] : x \in {"id", "swap", "zero"}} \cup
    {[xform |-> "zero", failAt |-> n, failure |-> f] :
        n \in 1..MaxFailAt, f \in {"throw", "null"}}

InitAst ==
    /\ clauses = <<>>
    /\ normalisations = <<>>
    /\ countUnnamed = 0
    /\ nc = NewNormalisedClause
    /\ pc = "ast"
    /\ ci = 0
    /\ li = 0
    /\ \E t \in AstPool :
          LET r == Build(<<>>, t)
          IN heap = r.h /\ roots = <<r.at>>
    /\ last = NoOperation
    /\ nops = 0

\* the tree a pass works on: the newest
Current == roots[Len(roots)]

\* n->clone() for the root of a tree the pass holds
Clone(r) ==
    /\ pc = "ast" /\ nops < MaxOps
    /\ Len(roots) < MaxRoots
    /\ LET c == clone(heap, roots[r])
       IN /\ heap' = c.h
          /\ roots' = Append(roots, c.at)
          /\ last' = [op |-> "clone", node |-> roots[r], res |-> c.at, h |-> heap]
    /\ nops' = nops + 1
    /\ UNCHANGED <<clauses, normalisations, countUnnamed, nc, pc, ci, li>>

\* setName on a variable or user-defined functor of the current tree
SetName(a, name) ==
    /\ pc = "ast" /\ nops < MaxOps
    /\ a \in Tree(heap, Current)
    /\ heap[a].kind \in {"AstVariable", "AstUserDefinedFunctor"}
    /\ heap' = setName(heap, a, name)
    /\ last' = [op |-> "setName", node |-> a, h |-> heap]
    /\ nops' = nops + 1
    /\ UNCHANGED <<clauses, normalisations, countUnnamed, nc, pc, ci, li, roots>>

\* setSrcLoc on a node of the current tree
SetSrcLoc(a, l) ==
    /\ pc = "ast" /\ nops < MaxOps
    /\ a \in Tree(heap, Current)
    /\ heap' = [heap EXCEPT ![a] = setSrcLoc(@, l)]
    /\ last' = [op |-> "setSrcLoc", node |-> a, h |-> heap]
    /\ nops' = nops + 1
    /\ UNCHANGED <<clauses, normalisations, countUnnamed, nc, pc, ci, li, roots>>

\* add(arg) on the current tree, a user-defined functor or a record, arg new
Add(t) ==
    /\ pc = "ast" /\ nops < MaxOps
    /\ heap[Current].kind \in {"AstUserDefinedFunctor", "AstRecordInit"}
    /\ LET r == Build(heap, t)
       IN heap' = add(r.h, Current, r.at)
    /\ last' = [op |-> "add", node |-> Current, h |-> heap]
    /\ nops' = nops + 1
    /\ UNCHANGED <<clauses, normalisations, countUnnamed, nc, pc, ci, li, roots>>

\* setTargetExpression(arg) on the current tree, an aggregator, arg new; the target
\* it had is destroyed (its nodes stay on the heap, owned by nothing)
SetTargetExpression(t) ==
    /\ pc = "ast" /\ nops < MaxOps
    /\ heap[Current].kind = "AstAggregator"
    /\ LET r == Build(heap, t)
       IN heap' = setTargetExpression(r.h, Current, r.at)
    /\ last' = [op |-> "setTargetExpression", node |-> Current, h |-> heap]
    /\ nops' = nops + 1
    /\ UNCHANGED <<clauses, normalisations, countUnnamed, nc, pc, ci, li, roots>>

\* addBodyLiteral(lit) on the current tree, an aggregator, lit new
AggregatorAddBodyLiteral(t) ==
    /\ pc = "ast" /\ nops < MaxOps
    /\ heap[Current].kind = "AstAggregator"
    /\ LET r == Build(heap, t)
       IN heap' = addBodyLiteral(r.h, Current, r.at)
    /\ last' = [op |-> "addBodyLiteral", node |-> Current, h |-> heap]
    /\ nops' = nops + 1
    /\ UNCHANGED <<clauses, normalisations, countUnnamed, nc, pc, ci, li, roots>>

\* clearBodyLiterals() on the current tree, an aggregator; the literals are destroyed
ClearBodyLiterals ==
    /\ pc = "ast" /\ nops < MaxOps
    /\ heap[Current].kind = "AstAggregator"
    /\ heap' = clearBodyLiterals(heap, Current)
    /\ last' = [op |-> "clearBodyLiterals", node |-> Current, h |-> heap]
    /\ nops' = nops + 1
    /\ UNCHANGED <<clauses, normalisations, countUnnamed, nc, pc, ci, li, roots>>

\* apply(m) on the root of the current tree; a failing mapper ends the pass
Apply(m) ==
    /\ pc = "ast" /\ nops < MaxOps
    /\ m.failAt <= Len(getChildNodes(heap[Current]))
    /\ LET ap == apply(NewRewrite(heap), m, Current)
       IN /\ heap' = ap.h
          /\ pc' = IF ap.failed # "" THEN "failed" ELSE "ast"
          /\ last' = [op |-> "apply", node |-> Current, mapper |-> m, calls |-> ap.calls,
                      failed |-> ap.failed, h |-> heap]
    /\ nops' = nops + 1
    /\ UNCHANGED <<clauses, normalisations, countUnnamed, nc, ci, li, roots>>

\* a variant: the functor is made whatever the number of its operands
ConstructUnchecked(class, op, n) ==
    /\ pc = "ast" /\ nops < MaxOps
    /\ Len(roots) < MaxRoots
    /\ LET operands == BuildAll(heap, [i \in 1..n |-> Num(i)], <<>>)
           res == New(operands.h, AstBuiltInFunctor(class, op, operands.ats))
       IN /\ heap' = res.h
          /\ roots' = Append(roots, res.at)
          /\ pc' = "ast"
          /\ last' = [op |-> "construct", class |-> class, fun |-> op, operands |-> n,
                      h |-> heap]
    /\ nops' = nops + 1
    /\ UNCHANGED <<clauses, normalisations, countUnnamed, nc, ci, li>>

\* new AstUnaryFunctor(op, o), AstBinaryFunctor(op, l, r), AstTernaryFunctor(op, a1,
\* a2, a3): n operands for the class, the assertion of line 329 decides
Construct(class, op, n) ==
    /\ pc = "ast" /\ nops < MaxOps
    /\ Len(roots) < MaxRoots
    /\ LET operands == BuildAll(heap, [i \in 1..n |-> Num(i)], <<>>)
           res == New(operands.h, AstBuiltInFunctor(class, op, operands.ats))
       IN IF AstBuiltInFunctorAssertion(op, operands.ats)
          THEN /\ heap' = res.h
               /\ roots' = Append(roots, res.at)
               /\ pc' = "ast"
          ELSE /\ pc' = "aborted"
               /\ UNCHANGED <<heap, roots>>
    /\ last' = [op |-> "construct", class |-> class, fun |-> op, operands |-> n, h |-> heap]
    /\ nops' = nops + 1
    /\ UNCHANGED <<clauses, normalisations, countUnnamed, nc, ci, li>>

\* the number of operands the constructor of a class takes
Operands(class) ==
    CASE class = "AstUnaryFunctor" -> 1
      [] class = "AstBinaryFunctor" -> 2
      [] class = "AstTernaryFunctor" -> 3

NextAst ==
    \/ \E r \in DOMAIN roots : Clone(r)
    \/ \E a \in DOMAIN heap : \E name \in Names : SetName(a, name)
    \/ \E a \in DOMAIN heap : \E l \in 1..MaxLoc : SetSrcLoc(a, l)
    \/ \E t \in {X, Num(0)} : Add(t)
    \/ \E t \in {X, Num(0)} : SetTargetExpression(t)
    \/ \E t \in {S(X), Neg(T(Y))} : AggregatorAddBodyLiteral(t)
    \/ ClearBodyLiterals
    \/ \E m \in Mappers : Apply(m)
    \/ \E class \in IntrinsicFunctors : \E op \in FunctorOps :
          Construct(class, op, Operands(class))

SpecAst == InitAst /\ [][NextAst]_vars

-----------------------------------------------------------------------------
(* What the properties below speak about.                                  *)

Done == DOMAIN normalisations
Elems(k) == normalisations[k].clauseElements
Range(seq) == {seq[n] : n \in DOMAIN seq}
BagOfSeq(seq) == [e \in Range(seq) |-> Cardinality({n \in DOMAIN seq : seq[n] = e})]

\* the tokens the two counters can have issued so far
UnnamedTokens == {"@min:unnamed:" \o ToString(n) : n \in 0..countUnnamed}
ScopeToken(n) == "@min:scope:" \o ToString(n)

\* the argument slots of a head, a literal or an aggregator, in declaration order
Slots(node) ==
    IF node.kind = "AstAtom" THEN node.args
    ELSE IF node.kind = "AstNegation" THEN node.atom.args
    ELSE IF node.kind = "AstBinaryConstraint" THEN <<node.lhs, node.rhs>>
    ELSE IF node.kind = "AstAggregator" THEN node.target
    ELSE <<>>

(* The expected layout of a clause's elements: one entry per element, in   *)
(* the order of emission.  An entry names the node it stands for, the      *)
(* entry of the aggregator whose body holds it (owner, 0 at clause level), *)
(* per argument slot the entry of the aggregator in that slot (0 when the  *)
(* slot holds no aggregator), and for an aggregator the ordinal of its     *)
(* scope.  lay is [entries, count]: the entries so far and the number of   *)
(* aggregators met so far.                                                 *)
RECURSIVE LayArg(_, _)
RECURSIVE LayArgs(_, _, _)
RECURSIVE LayNode(_, _, _, _)
RECURSIVE LayLits(_, _, _)

LayArgs(lay, args, slots) ==
    IF args = <<>> THEN [lay |-> lay, slots |-> slots]
    ELSE LET r == LayArg(lay, Head(args))
         IN LayArgs(r.lay, Tail(args), Append(slots, r.slot))

LayNode(lay, what, node, owner) ==
    LET r == LayArgs(lay, Slots(node), <<>>)
    IN [r.lay EXCEPT !.entries =
            Append(@, [what |-> what, node |-> node, owner |-> owner,
                       slots |-> r.slots, scope |-> 0])]

LayLits(lay, lits, owner) ==
    IF lits = <<>> THEN lay
    ELSE LayLits(LayNode(lay, "lit", Head(lits), owner), Tail(lits), owner)

LayArg(lay, arg) ==
    IF arg.kind # "AstAggregator" THEN [lay |-> lay, slot |-> 0]
    ELSE LET n == lay.count + 1
             r == LayArgs([lay EXCEPT !.count = n], arg.target, <<>>)
             p == Len(r.lay.entries) + 1
             l2 == [r.lay EXCEPT !.entries =
                       Append(@, [what |-> "aggr", node |-> arg, owner |-> 0,
                                  slots |-> r.slots, scope |-> n])]
         IN [lay |-> LayLits(l2, arg.body, p), slot |-> p]

Layout(clause) ==
    LayLits(LayNode([entries |-> <<>>, count |-> 0], "head", clause.head, 0),
            clause.body, 0).entries

\* tok is what the table of the specification gives for the argument in slot n
\* of entry e, given the elements els laid out as lay
IsTokenOf(els, e, n, tok) ==
    LET arg == Slots(e.node)[n]
    IN CASE arg.kind = "AstVariable" -> tok = arg.name
         [] arg.kind = "AstStringConstant" -> tok = "@min:cst:str\"" \o arg.str \o "\""
         [] arg.kind = "AstNumericConstant" -> tok = "@min:cst:num:" \o ToString(arg.num)
         [] arg.kind = "AstNilConstant" -> tok = "@min:cst:nil"
         [] arg.kind = "AstUnnamedVariable" -> tok \in UnnamedTokens
         [] arg.kind = "AstAggregator" -> tok = els[e.slots[n]].params[1]
         [] OTHER -> tok = "@min:unhandled:arg"

\* the scope id an entry's element carries in front
ScopeOf(els, e) == IF e.owner = 0 THEN "@min:scope:0" ELSE els[e.owner].params[1]

\* the number of unnamed variables in a clause at every depth the normaliser
\* reaches: in heads, literals, aggregator targets and bodies, not inside a functor,
\* a record or a cast
RECURSIVE UnnamedInArgs(_)
RECURSIVE UnnamedInLits(_)
UnnamedInArgs(args) ==
    IF args = <<>> THEN 0
    ELSE (LET arg == Head(args)
          IN IF arg.kind = "AstUnnamedVariable" THEN 1
             ELSE IF arg.kind = "AstAggregator"
                  THEN UnnamedInArgs(arg.target) + UnnamedInLits(arg.body)
                  ELSE 0)
         + UnnamedInArgs(Tail(args))
UnnamedInLits(lits) ==
    IF lits = <<>> THEN 0
    ELSE UnnamedInArgs(Slots(Head(lits))) + UnnamedInLits(Tail(lits))
UnnamedIn(clause) == UnnamedInArgs(clause.head.args) + UnnamedInLits(clause.body)

\* the number of aggregators in a clause at every depth the normaliser reaches: not
\* inside a functor, a record or a cast
RECURSIVE AggregatorsInArgs(_)
RECURSIVE AggregatorsInLits(_)
AggregatorsInArgs(args) ==
    IF args = <<>> THEN 0
    ELSE (LET arg == Head(args)
          IN IF arg.kind = "AstAggregator"
             THEN 1 + AggregatorsInArgs(arg.target) + AggregatorsInLits(arg.body)
             ELSE 0)
         + AggregatorsInArgs(Tail(args))
AggregatorsInLits(lits) ==
    IF lits = <<>> THEN 0
    ELSE AggregatorsInArgs(Slots(Head(lits))) + AggregatorsInLits(Tail(lits))
AggregatorsIn(clause) ==
    AggregatorsInArgs(clause.head.args) + AggregatorsInLits(clause.body)

\* the arguments inside an argument that is not an aggregator
NestedArguments(arg) ==
    IF arg.kind \in {"AstUnaryFunctor", "AstBinaryFunctor", "AstTernaryFunctor",
                     "AstUserDefinedFunctor", "AstRecordInit"}
    THEN arg.args
    ELSE IF arg.kind = "AstTypeCast" THEN <<arg.value>> ELSE <<>>

\* literals that are an atom, a negated atom or a binary constraint
HandledLiteral(lit) == lit.kind \in {"AstAtom", "AstNegation", "AstBinaryConstraint"}

\* the number of occurrences in a clause of unnamed variables ("unnamed"), of atoms,
\* negated atoms and binary constraints as body literals ("literal") or of
\* aggregators ("aggregator"), wherever they stand: in the head, in body literals, in
\* aggregator targets and bodies, and inside functors, records and casts
RECURSIVE OccurrencesInArgs(_, _)
RECURSIVE OccurrencesInLits(_, _)
OccurrencesInArgs(args, what) ==
    IF args = <<>> THEN 0
    ELSE (LET arg == Head(args)
          IN IF arg.kind = "AstUnnamedVariable"
             THEN (IF what = "unnamed" THEN 1 ELSE 0)
             ELSE IF arg.kind = "AstAggregator"
             THEN (IF what = "aggregator" THEN 1 ELSE 0)
                  + OccurrencesInArgs(arg.target, what) + OccurrencesInLits(arg.body, what)
             ELSE OccurrencesInArgs(NestedArguments(arg), what))
         + OccurrencesInArgs(Tail(args), what)
OccurrencesInLits(lits, what) ==
    IF lits = <<>> THEN 0
    ELSE (IF what = "literal" /\ HandledLiteral(Head(lits)) THEN 1 ELSE 0)
         + OccurrencesInArgs(Slots(Head(lits)), what)
         + OccurrencesInLits(Tail(lits), what)
Occurrences(clause, what) ==
    OccurrencesInArgs(clause.head.args, what) + OccurrencesInLits(clause.body, what)

\* the elements of aggregators
AggrTypeNames == {"@min:aggrtype:" \o AggregateOpSymbol(op) : op \in {"min", "max", "count", "sum"}}
IsAggrType(e) == e.name[1] \in AggrTypeNames

\* the places (element, param) of a finished clause that hold an unnamed token
UnnamedPlaces(k) ==
    {pl \in UNION {{<<e, n>> : n \in DOMAIN Elems(k)[e].params} : e \in DOMAIN Elems(k)} :
        Elems(k)[pl[1]].params[pl[2]] \in UnnamedTokens}

-----------------------------------------------------------------------------
(* C1.  Normalisation is deterministic: two clauses of the program that    *)
(* are the same clause have, once both are normalised, element sequences   *)
(* of equal length with equal elements (name and params) at every index,   *)
(* whatever was normalised before or in between.                           *)
C1_Deterministic ==
    \A a \in Done : \A b \in Done :
        clauses[a] = clauses[b] =>
            /\ Len(Elems(a)) = Len(Elems(b))
            /\ \A n \in DOMAIN Elems(a) :
                   /\ Elems(a)[n].name = Elems(b)[n].name
                   /\ Elems(a)[n].params = Elems(b)[n].params

(* C2.  The unnamed-variable counter is per NormalisedClause: in every     *)
(* finished clause the unnamed tokens are @min:unnamed:0 ..                *)
(* @min:unnamed:(u-1), u being the number of unnamed variables of the      *)
(* clause, whatever was normalised before.                                 *)
C2_UnnamedCounterPerClause ==
    \A k \in Done :
        normalisations[k].variables \cap UnnamedTokens =
            {"@min:unnamed:" \o ToString(n) : n \in 0..(UnnamedIn(clauses[k]) - 1)}

(* C3.  Reordering the body literals of a clause (no aggregators) leaves   *)
(* the normalised elements the same as a multiset: the @min:head element   *)
(* stays first with the same params and the body elements are equal as a   *)
(* multiset.                                                               *)
Reordered(a, b) ==
    /\ clauses[a].head = clauses[b].head
    /\ BagOfSeq(clauses[a].body) = BagOfSeq(clauses[b].body)

SameElementsUpToOrder(a, b) ==
    /\ Elems(a)[1].name = <<"@min:head">>
    /\ Elems(a)[1] = Elems(b)[1]
    /\ BagOfSeq(Tail(Elems(a))) = BagOfSeq(Tail(Elems(b)))

\* the number of an unnamed token, and the lowest number a finished clause holds
UnnamedNumber(tok) == CHOOSE n \in 0..countUnnamed : tok = "@min:unnamed:" \o ToString(n)
LowestUnnamed(k) ==
    LET toks == normalisations[k].variables \cap UnnamedTokens
    IN CHOOSE n \in 0..countUnnamed :
           /\ "@min:unnamed:" \o ToString(n) \in toks
           /\ \A tok \in toks : n <= UnnamedNumber(tok)

\* the elements of a finished clause with the unnamed tokens numbered from 0 again
Renumbered(k) ==
    LET renumber(tok) ==
            IF tok \in UnnamedTokens
            THEN "@min:unnamed:" \o ToString(UnnamedNumber(tok) - LowestUnnamed(k))
            ELSE tok
    IN [e \in DOMAIN Elems(k) |->
           Element(Elems(k)[e].name,
                   [n \in DOMAIN Elems(k)[e].params |-> renumber(Elems(k)[e].params[n])])]

\* as claimed: for all argument kinds, unnamed variables included.  The unnamed
\* tokens are compared by their number within the clause, which leaves the counter's
\* running on from clause to clause (C2) out of account.
C3_ReorderingAnyArguments ==
    \A a \in Done : \A b \in Done :
        (Reordered(a, b) /\ AggregatorsIn(clauses[a]) = 0)
            => /\ Renumbered(a)[1].name = <<"@min:head">>
               /\ Renumbered(a)[1] = Renumbered(b)[1]
               /\ BagOfSeq(Tail(Renumbered(a))) = BagOfSeq(Tail(Renumbered(b)))

\* as amended: for clauses without aggregators and without unnamed variables
C3_ReorderingNoUnnamed ==
    \A a \in Done : \A b \in Done :
        (Reordered(a, b) /\ AggregatorsIn(clauses[a]) = 0 /\ UnnamedIn(clauses[a]) = 0)
            => SameElementsUpToOrder(a, b)

\* two clauses whose bodies are the same two literals in different order, without
\* unnamed variables, are both normalised
C3_Witness ==
    \E a \in Done : \E b \in Done :
        /\ Reordered(a, b)
        /\ clauses[a].body # clauses[b].body
        /\ AggregatorsIn(clauses[a]) = 0
        /\ UnnamedIn(clauses[a]) = 0
        /\ Elems(a) # Elems(b)

(* C4 as stated.  Within one NormalisedClause every occurrence of an       *)
(* unnamed variable (head, body literals, aggregator bodies and targets)   *)
(* has a token @min:unnamed:k of its own, and each of these tokens is in   *)
(* variables.                                                              *)
C4_UnnamedEveryOccurrence ==
    \A k \in Done :
        /\ Cardinality(UnnamedPlaces(k)) = Occurrences(clauses[k], "unnamed")
        /\ \A p \in UnnamedPlaces(k) : \A q \in UnnamedPlaces(k) :
               p # q => Elems(k)[p[1]].params[p[2]] # Elems(k)[q[1]].params[q[2]]
        /\ \A p \in UnnamedPlaces(k) :
               Elems(k)[p[1]].params[p[2]] \in normalisations[k].variables

(* C4 amended.  Every occurrence of an unnamed variable that is an         *)
(* argument of the head, of a body literal, of a literal of an aggregator  *)
(* body, or an aggregator's target, has a token @min:unnamed:k of its own, *)
(* and each of these tokens is in variables; an unnamed variable inside a  *)
(* functor, a record or a cast has no token.                               *)
C4_UnnamedDistinct ==
    \A k \in Done :
        /\ Cardinality(UnnamedPlaces(k)) = UnnamedIn(clauses[k])
        /\ \A p \in UnnamedPlaces(k) : \A q \in UnnamedPlaces(k) :
               p # q => Elems(k)[p[1]].params[p[2]] # Elems(k)[q[1]].params[q[2]]
        /\ \A p \in UnnamedPlaces(k) :
               Elems(k)[p[1]].params[p[2]] \in normalisations[k].variables
        /\ {t \in normalisations[k].variables : t \in UnnamedTokens} =
               {Elems(k)[p[1]].params[p[2]] : p \in UnnamedPlaces(k)}

\* a clause with unnamed variables in its head, in an aggregator's target and in
\* an aggregator's body is normalised, after a clause with one unnamed variable as
\* an atom's argument and one inside a functor
C4_Witness ==
    \E k \in Done :
        /\ k > 1
        /\ UnnamedIn(clauses[1]) > 0
        /\ Occurrences(clauses[1], "unnamed") > UnnamedIn(clauses[1])
        /\ UnnamedIn(clauses[k]) >= 3
        /\ AggregatorsIn(clauses[k]) > 0
        /\ UnnamedInArgs(clauses[k].head.args) > 0

(* C5.  Every NormalisedClause has exactly one element named @min:head;    *)
(* its params are the tokens of the head arguments in order, with no scope *)
(* id in front (as many params as the head has arguments); it is the first *)
(* element when no head argument is an aggregator.                         *)
HeadEntries(k) == {e \in DOMAIN Elems(k) : Elems(k)[e].name = <<"@min:head">>}

C5_HeadElement ==
    \A k \in Done :
        LET lay == Layout(clauses[k])
            args == clauses[k].head.args
        IN /\ Cardinality(HeadEntries(k)) = 1
           /\ \A e \in HeadEntries(k) :
                 /\ lay[e].what = "head"
                 /\ Len(Elems(k)[e].params) = Len(args)
                 /\ \A n \in DOMAIN args :
                        IsTokenOf(Elems(k), lay[e], n, Elems(k)[e].params[n])
                 /\ AggregatorsInArgs(args) = 0 => e = 1

\* normalised: a clause with two head arguments, and a clause whose head holds an
\* aggregator, so that the head element is not the first
C5_Witness ==
    /\ \E k \in Done : Len(clauses[k].head.args) = 2 /\ HeadEntries(k) = {1}
    /\ \E k \in Done : AggregatorsInArgs(clauses[k].head.args) > 0 /\ 1 \notin HeadEntries(k)

(* C6.  Every body literal that is an atom, a negated atom or a binary     *)
(* constraint has exactly one element of its own: named by the atom's      *)
(* qualified name under @min:atom or @min:neg, or by the operator symbol   *)
(* under @min:operator, with params [scopeID, norm(a1), ..., norm(an)] in  *)
(* argument order; scopeID is @min:scope:0 in the clause body and the      *)
(* enclosing aggregator's scope id in an aggregator body.                  *)
OperatorSymbol(op) ==
    CASE op = "EQ" -> "="
      [] op = "NE" -> "!="
      [] op = "LT" -> "<"
      [] op = "LE" -> "<="
      [] op = "GT" -> ">"
      [] op = "GE" -> ">="

LiteralName(lit) ==
    IF lit.kind = "AstAtom" THEN <<"@min:atom">> \o lit.name
    ELSE IF lit.kind = "AstNegation" THEN <<"@min:neg">> \o lit.atom.name
    ELSE <<"@min:operator", OperatorSymbol(lit.op)>>

LiteralEntries(lay) == {e \in DOMAIN lay : lay[e].what = "lit" /\ HandledLiteral(lay[e].node)}

\* the elements of atoms, negated atoms and binary constraints
LiteralElements(k) ==
    {i \in DOMAIN Elems(k) : Elems(k)[i].name[1] \in {"@min:atom", "@min:neg", "@min:operator"}}

\* C6 as stated: every such literal of the clause, wherever it stands, has its element
C6_EveryLiteralElement ==
    \A k \in Done :
        LET lay == Layout(clauses[k])
            els == Elems(k)
        IN /\ Cardinality(LiteralElements(k)) = Occurrences(clauses[k], "literal")
           /\ \A e \in LiteralEntries(lay) :
                 e \in DOMAIN els =>
                     /\ els[e].name = LiteralName(lay[e].node)
                     /\ els[e].params[1] = ScopeOf(els, lay[e])

(* C6 amended.  Every literal of the clause body, and every literal of the *)
(* body of an aggregator that is an argument of the head or of such a      *)
(* literal or the target of such an aggregator, that is an atom, a negated *)
(* atom or a binary constraint has exactly one element of its own, with    *)
(* the name and params of C6; the literals of an aggregator inside a       *)
(* functor, a record or a cast have no element.                            *)
C6_LiteralElements ==
    \A k \in Done :
        LET lay == Layout(clauses[k])
            els == Elems(k)
        IN /\ Len(els) = Len(lay)
           /\ LiteralElements(k) = LiteralEntries(lay)
           /\ \A e \in LiteralEntries(lay) :
                 /\ els[e].name = LiteralName(lay[e].node)
                 /\ Len(els[e].params) = 1 + Len(Slots(lay[e].node))
                 /\ els[e].params[1] = ScopeOf(els, lay[e])
                 /\ \A n \in DOMAIN Slots(lay[e].node) :
                        IsTokenOf(els, lay[e], n, els[e].params[n + 1])

\* normalised: a clause with an atom, a negation and a constraint inside an
\* aggregator body, and a clause with a negation in the clause body and an atom in
\* the body of an aggregator inside a functor
C6_Witness ==
    /\ \E k \in Done :
          LET lay == Layout(clauses[k])
          IN \A kind \in {"AstAtom", "AstNegation", "AstBinaryConstraint"} :
                 \E e \in LiteralEntries(lay) :
                     lay[e].node.kind = kind /\ lay[e].owner # 0
    /\ \E k \in Done :
          /\ \E n \in DOMAIN clauses[k].body : clauses[k].body[n].kind = "AstNegation"
          /\ Occurrences(clauses[k], "literal") > Cardinality(LiteralElements(k))

(* C7.  An aggregator argument gets a fresh scope id                       *)
(* @min:scope:(++aggrScopeCount), which goes into variables; one element   *)
(* @min:aggrtype:<op> is emitted with params [s'] or [s', norm(target)],   *)
(* then the elements of the aggregator's body literals in order, each      *)
(* under s'; s' is the aggregator's token.  For R(Y) :- Y = count :        *)
(* { S(X) } the @min:aggrtype:count element with params [@min:scope:1] is  *)
(* followed by the @min:atom S element under @min:scope:1.                 *)
AggregatorEntries(lay) == {e \in DOMAIN lay : lay[e].what = "aggr"}

\* the entries of the body literals of the aggregator at entry e, in order
BodyEntries(lay, e) == {b \in DOMAIN lay : lay[b].what = "lit" /\ lay[b].owner = e}

C7_AggregatorElements ==
    \A k \in Done :
        LET lay == Layout(clauses[k])
            els == Elems(k)
        IN /\ Len(els) = Len(lay)
           /\ \A e \in AggregatorEntries(lay) :
                 LET aggr == lay[e].node
                     scopeID == ScopeToken(lay[e].scope)
                 IN /\ els[e].name = <<"@min:aggrtype:" \o aggr.op>>
                    /\ els[e].params[1] = scopeID
                    /\ scopeID \in normalisations[k].variables
                    /\ Len(els[e].params) = 1 + Len(aggr.target)
                    /\ aggr.target # <<>> => IsTokenOf(els, lay[e], 1, els[e].params[2])
                    /\ Cardinality(BodyEntries(lay, e)) = Len(aggr.body)
                    /\ \A b \in BodyEntries(lay, e) :
                           /\ b > e
                           /\ IF HandledLiteral(lay[b].node)
                              THEN els[b].params[1] = scopeID
                              ELSE els[b].name[1] = "@min:unhandled:lit:" \o scopeID
                    \* the n-th of them is the element of the n-th body literal
                    /\ \A n \in DOMAIN aggr.body :
                           \E b \in BodyEntries(lay, e) :
                               /\ Cardinality({c \in BodyEntries(lay, e) : c < b}) = n - 1
                               /\ HandledLiteral(aggr.body[n]) =>
                                      els[b].name = LiteralName(aggr.body[n])
                    \* the token handed to the place the aggregator stands in
                    /\ \A u \in DOMAIN lay : \A n \in DOMAIN lay[u].slots :
                           lay[u].slots[n] = e =>
                               els[u].params[IF lay[u].what \in {"head"} THEN n ELSE n + 1]
                                   = scopeID
           /\ clauses[k] = Scenario5 =>
                 /\ els[2] = Element(<<"@min:aggrtype:count">>, <<"@min:scope:1">>)
                 /\ els[3] = Element(<<"@min:atom", "S">>, <<"@min:scope:1", "X">>)

\* normalised: Scenario5, and a clause whose aggregator has a target that is itself
\* an aggregator
C7_Witness ==
    /\ \E k \in Done : clauses[k] = Scenario5
    /\ \E k \in Done :
          LET lay == Layout(clauses[k])
          IN \E e \in AggregatorEntries(lay) :
                 /\ lay[e].node.target # <<>>
                 /\ lay[e].slots[1] # 0

(* C8.  The aggregator scope counter is monotone and per clause: every     *)
(* aggregator of a clause has a scope id different from that of every      *)
(* other aggregator of the clause and from @min:scope:0; a nested          *)
(* aggregator's id differs from its enclosing aggregators' ids; the first  *)
(* aggregator of every clause gets @min:scope:1 whatever was normalised    *)
(* before.                                                                 *)
\* the aggregators enclosing the node of entry e, innermost first
RECURSIVE Enclosing(_, _)
Enclosing(lay, e) ==
    LET up == IF lay[e].what = "lit"
              THEN {lay[e].owner} \ {0}
              ELSE {u \in DOMAIN lay : \E n \in DOMAIN lay[u].slots : lay[u].slots[n] = e}
        aggrs == {u \in up : lay[u].what = "aggr"}
    IN aggrs \cup UNION {Enclosing(lay, u) : u \in up}

\* C8 as stated: every aggregator of the clause, wherever it stands, has a scope id
\* of its own, and a clause that has an aggregator has one with @min:scope:1
C8_EveryAggregatorScoped ==
    \A k \in Done :
        LET els == Elems(k)
            ids == {els[i].params[1] : i \in {a \in DOMAIN els : IsAggrType(els[a])}}
        IN /\ "@min:scope:0" \notin ids
           /\ Cardinality(ids) = Occurrences(clauses[k], "aggregator")
           /\ Occurrences(clauses[k], "aggregator") > 0 => "@min:scope:1" \in ids

(* C8 amended.  The aggregator scope counter is monotone and per clause:   *)
(* every aggregator that is an argument of the head, of a literal, or the  *)
(* target of such an aggregator (top-level, sibling or nested) has a scope *)
(* id different from every other's and from @min:scope:0, a nested one's   *)
(* differs from its enclosing aggregators', and the first of them in every *)
(* clause gets @min:scope:1 whatever was normalised before; an aggregator  *)
(* inside a functor, a record or a cast gets no scope id.                  *)
C8_ScopeIdsDistinct ==
    \A k \in Done :
        LET lay == Layout(clauses[k])
            els == Elems(k)
            id(e) == els[e].params[1]
        IN /\ Len(els) = Len(lay)
           /\ AggregatorEntries(lay) = {a \in DOMAIN els : IsAggrType(els[a])}
           /\ \A e \in AggregatorEntries(lay) :
                 /\ id(e) # "@min:scope:0"
                 /\ \A f \in AggregatorEntries(lay) : e # f => id(e) # id(f)
                 /\ \A f \in Enclosing(lay, e) : id(e) # id(f)
                 /\ lay[e].scope = 1 => id(e) = "@min:scope:1"
           /\ {id(e) : e \in AggregatorEntries(lay)} =
                  {ScopeToken(n) : n \in 1..AggregatorsIn(clauses[k])}
           /\ normalisations[k].aggrScopeCount = AggregatorsIn(clauses[k])

\* normalised after a clause with one aggregator inside a functor and two outside:
\* a clause with nested aggregators, three in all
C8_Witness ==
    /\ \E k \in Done :
          /\ k > 1 /\ AggregatorsIn(clauses[1]) > 0
          /\ Occurrences(clauses[1], "aggregator") > AggregatorsIn(clauses[1])
          /\ \E e \in AggregatorEntries(Layout(clauses[k])) :
                 Enclosing(Layout(clauses[k]), e) # {}
    /\ \E k \in Done : AggregatorsIn(clauses[k]) = 3

(* C9.  For R(Y) :- Y = count : { S(X) } the token of the variable Y in    *)
(* the @min:head element and in the @min:operator = element.               *)
HeadOf(k) == Elems(k)[1]
LastOf(k) == Elems(k)[Len(Elems(k))]

\* as claimed: the token of Y is @min:scope:1
C9_TokenOfYIsScope ==
    \A k \in Done :
        clauses[k] = Scenario5 =>
            /\ HeadOf(k) = Element(<<"@min:head">>, <<"@min:scope:1">>)
            /\ LastOf(k).name = <<"@min:operator", "=">>
            /\ LastOf(k).params[2] = "@min:scope:1"

\* as amended: the token of Y is its name, Y; @min:scope:1 is the token of the
\* aggregator that Y is equated with
C9_TokenOfYIsName ==
    \A k \in Done :
        clauses[k] = Scenario5 =>
            /\ HeadOf(k) = Element(<<"@min:head">>, <<"Y">>)
            /\ LastOf(k) = Element(<<"@min:operator", "=">>,
                                   <<"@min:scope:0", "Y", "@min:scope:1">>)
            /\ "Y" \in normalisations[k].variables

\* Scenario5 is normalised, as the first clause and as a later one
C9_Witness ==
    /\ 1 \in Done /\ clauses[1] = Scenario5
    /\ \E k \in Done : k > 1 /\ clauses[k] = Scenario5

(* C10.  Constant tokens never conflate kinds: the token of a number       *)
(* differs from the token of every string, both differ from @min:cst:nil,  *)
(* two constants of one kind have equal tokens iff their values are equal, *)
(* and every constant token is in the constants set of its clause.         *)
IsConstant(arg) ==
    arg.kind \in {"AstStringConstant", "AstNumericConstant", "AstNilConstant"}

\* the constant arguments of a finished clause, each with its token and the clause
ConstantTokens(k) ==
    LET lay == Layout(clauses[k])
        at(e, n) == IF lay[e].what = "head" THEN n ELSE n + 1
    IN UNION {{[arg |-> Slots(lay[e].node)[n], tok |-> Elems(k)[e].params[at(e, n)], of |-> k] :
                  n \in {m \in DOMAIN Slots(lay[e].node) : IsConstant(Slots(lay[e].node)[m])}} :
              e \in DOMAIN lay}

AllConstantTokens == UNION {ConstantTokens(k) : k \in Done}

C10_ConstantTokens ==
    /\ \A c \in AllConstantTokens : \A d \in AllConstantTokens :
           (c.tok = d.tok) <=> (c.arg = d.arg)
    /\ \A c \in AllConstantTokens : c.tok \in normalisations[c.of].constants

\* normalised: the number 1 and the string "1", nil, and one number in two clauses
C10_Witness ==
    /\ \E c \in AllConstantTokens : \E d \in AllConstantTokens :
           c.arg = Num(1) /\ d.arg = Str("1")
    /\ \E c \in AllConstantTokens : c.arg = Nil
    /\ \E c \in AllConstantTokens : \E d \in AllConstantTokens :
           c # d /\ c.arg = d.arg /\ c.arg.kind = "AstNumericConstant"

(* C11.  Unhandled kinds are recoverable: an argument the normaliser has   *)
(* no case for (functor, record, cast, counter, subroutine argument) gets  *)
(* the token @min:unhandled:arg, a literal it has no case for gets one     *)
(* element named @min:unhandled:lit:<scopeID> and the literal's text with  *)
(* empty params, both set fullyNormalised to false, and the other          *)
(* arguments and literals of the clause are normalised as ever: every      *)
(* clause the loop of run has passed has its NormalisedClause, and run     *)
(* aborts only on a clause that is already stored.                         *)
UnhandledArgument(arg) ==
    arg.kind \notin {"AstStringConstant", "AstNumericConstant", "AstNilConstant",
                     "AstVariable", "AstUnnamedVariable", "AstAggregator"}

UnhandledLiterals(lay) ==
    {e \in DOMAIN lay : lay[e].what = "lit" /\ ~HandledLiteral(lay[e].node)}

\* the places (entry, slot) of a layout that hold an unhandled argument
UnhandledPlaces(lay) ==
    UNION {{<<e, n>> : n \in {m \in DOMAIN Slots(lay[e].node) :
                                 UnhandledArgument(Slots(lay[e].node)[m])}} :
              e \in DOMAIN lay}

\* the param of the element of entry e that holds the token of its slot n
ParamAt(lay, e, n) == IF lay[e].what = "head" THEN n ELSE n + 1

C11_UnhandledRecoverable ==
    /\ \A k \in Done :
          LET lay == Layout(clauses[k])
              els == Elems(k)
          IN /\ Len(els) = Len(lay)
             /\ \A e \in UnhandledLiterals(lay) :
                   /\ els[e] = Element(<<"@min:unhandled:lit:" \o ScopeOf(els, lay[e]),
                                         lay[e].node.text>>, <<>>)
                   /\ normalisations[k].fullyNormalised = FALSE
             /\ \A pl \in UnhandledPlaces(lay) :
                   /\ els[pl[1]].params[ParamAt(lay, pl[1], pl[2])] = "@min:unhandled:arg"
                   /\ normalisations[k].fullyNormalised = FALSE
             \* the rest of the clause is normalised as the table says
             /\ \A e \in DOMAIN lay : \A n \in DOMAIN Slots(lay[e].node) :
                   IsTokenOf(els, lay[e], n, els[e].params[ParamAt(lay, e, n)])
             /\ \A e \in LiteralEntries(lay) :
                   /\ els[e].name = LiteralName(lay[e].node)
                   /\ Len(els[e].params) = 1 + Len(Slots(lay[e].node))
    /\ \A k \in DOMAIN clauses : k < ci => k \in Done
    /\ pc = "aborted" => ci \in Done

\* normalised, with a clause after it normalised too: a clause with an unhandled
\* argument in front of a handled one and a literal after it; and normalised: a
\* clause with an unhandled literal inside an aggregator body, a literal after it
C11_Witness ==
    /\ \E k \in Done :
          LET lay == Layout(clauses[k])
          IN /\ k + 1 \in Done
             /\ \E pl \in UnhandledPlaces(lay) :
                   /\ pl[2] < Len(Slots(lay[pl[1]].node))
                   /\ pl[1] < Len(lay)
                   /\ lay[pl[1]].what = "lit"
    /\ \E k \in Done :
          LET lay == Layout(clauses[k])
          IN \E e \in UnhandledLiterals(lay) :
                 /\ lay[e].owner # 0
                 /\ \E b \in LiteralEntries(lay) : b > e /\ lay[b].owner = lay[e].owner

(* C12.  fullyNormalised = false is sticky: at every step of building a    *)
(* NormalisedClause the flag is false iff an unhandled literal or argument *)
(* was met in the part of the clause normalised so far (the head and the   *)
(* body literals before the current one, aggregator bodies and targets     *)
(* included), so that once false it stays false, and the finished          *)
(* NormalisedClause has it false iff the clause holds an unhandled kind.   *)
HasUnhandled(clause) ==
    LET lay == Layout(clause)
    IN UnhandledLiterals(lay) # {} \/ UnhandledPlaces(lay) # {}

\* the part of clause k that has been normalised when n body literals are done
Processed(k, n) == Clause(clauses[k].head, SubSeq(clauses[k].body, 1, n))

C12_StickyFlag ==
    /\ pc = "body" =>
          (nc.fullyNormalised = FALSE <=> HasUnhandled(Processed(ci, li - 1)))
    /\ \A k \in Done :
          normalisations[k].fullyNormalised = FALSE <=> HasUnhandled(clauses[k])

\* the flag is false after a handled literal behind the unhandled part has been
\* normalised, and a clause with an unhandled argument in an aggregator's target
\* is finished
C12_Witness ==
    /\ pc = "body" /\ li > 2
    /\ HasUnhandled(Processed(ci, li - 2))
    /\ HandledLiteral(clauses[ci].body[li - 1])
    /\ ~HasUnhandled(Clause(clauses[ci].head, <<clauses[ci].body[li - 1]>>))
    /\ nc.fullyNormalised = FALSE
    /\ \E k \in Done :
          LET lay == Layout(clauses[k])
          IN \E pl \in UnhandledPlaces(lay) : lay[pl[1]].what = "aggr"

(* C13.  The registry holds one NormalisedClause per clause identity (the  *)
(* clause's place in the program): the keys are clauses of the program,    *)
(* after a run all of them; a stored entry is never changed or removed;    *)
(* and when run meets a clause that is already a key, as it does at the    *)
(* first clause of a second run, the next step is the failed assertion,    *)
(* with every entry as it was.                                             *)
RunComplete == Done = DOMAIN clauses

C13_RegistryState ==
    /\ Done \subseteq DOMAIN clauses
    /\ (pc = "idle" /\ ci > 0) => RunComplete
    /\ (pc = "clause" /\ RunComplete) => ci \in Done
    /\ pc = "aborted" => ci \in Done

C13_RegistryStep ==
    /\ \A k \in Done : k \in DOMAIN normalisations' /\ normalisations'[k] = normalisations[k]
    /\ (pc = "clause" /\ ci \in Done) => (pc' = "aborted" /\ normalisations' = normalisations)

C13_OneEntryPerClause == []C13_RegistryState /\ [][C13_RegistryStep]_vars

\* a second run of a program that holds the same clause twice has tripped the
\* assertion; both clauses have their entries
C13_Witness ==
    /\ pc = "aborted"
    /\ Len(clauses) = 2
    /\ clauses[1] = clauses[2]
    /\ Done = {1, 2}

-----------------------------------------------------------------------------
(* What the properties of the AST speak about.                             *)

\* a qualified name as one string, its components joined with dots
RECURSIVE Qualified(_)
Qualified(name) ==
    IF Len(name) = 1 THEN name[1] ELSE name[1] \o "." \o Qualified(Tail(name))

\* the members of a node that are not children and not its source location, as text
Scalars(node) ==
    CASE node.kind \in {"AstVariable", "AstUserDefinedFunctor"} -> node.name
      [] node.kind = "AstAtom" -> Qualified(node.name)
      [] node.kind \in {"AstStringConstant", "AstNumberConstant", "AstNullConstant"} ->
            ToString(node.idx)
      [] node.kind \in IntrinsicFunctors \cup {"AstBinaryConstraint"} -> node.op
      [] node.kind = "AstTypeCast" -> node.type
      [] node.kind = "AstAggregator" -> node.fun
      [] node.kind = "AstSubroutineArgument" -> ToString(node.number)
      [] OTHER -> ""

\* the child slots of a node in declaration order, an empty slot being NoNode:
\* functor, record and atom arguments by index; the cast's value; the aggregator's
\* target expression, then its body literals
ChildSlots(node) ==
    CASE node.kind \in IntrinsicFunctors \cup
                      {"AstUserDefinedFunctor", "AstRecordInit", "AstAtom"} -> node.args
      [] node.kind = "AstTypeCast" -> <<node.value>>
      [] node.kind = "AstAggregator" -> <<node.expr>> \o node.body
      [] node.kind = "AstNegation" -> <<node.atom>>
      [] node.kind = "AstBinaryConstraint" -> <<node.lhs, node.rhs>>
      [] OTHER -> <<>>

\* the tree at a as a value: with its source locations (Value), without (Shape)
RECURSIVE Value(_, _)
Value(h, a) ==
    IF a = NoNode THEN [kind |-> "nullptr"]
    ELSE [kind |-> h[a].kind, loc |-> h[a].loc, scalars |-> Scalars(h[a]),
          children |-> [i \in DOMAIN ChildSlots(h[a]) |-> Value(h, ChildSlots(h[a])[i])]]

RECURSIVE Shape(_, _)
Shape(h, a) ==
    IF a = NoNode THEN [kind |-> "nullptr"]
    ELSE [kind |-> h[a].kind, scalars |-> Scalars(h[a]),
          children |-> [i \in DOMAIN ChildSlots(h[a]) |-> Shape(h, ChildSlots(h[a])[i])]]

\* the shape of an expression as the parser builds it
ShapeOf(t) == LET r == Build(<<>>, t) IN Shape(r.h, r.at)

\* the nodes of the trees a running pass holds (a pass that has ended in a failed
\* rewrite or a failed assertion compares nothing any more)
Nodes == IF pc # "ast" THEN {} ELSE UNION {Tree(heap, roots[r]) : r \in DOMAIN roots}

Mutations ==
    {"setName", "setSrcLoc", "add", "setTargetExpression", "addBodyLiteral",
     "clearBodyLiterals", "apply"}

(* C14.  clone(n) is structurally equal to n and shares no node with n:    *)
(* every node of the clone is new.  A later mutation of one tree (setName, *)
(* setSrcLoc, add, setTargetExpression, addBodyLiteral, clearBodyLiterals,  *)
(* apply with any mapper) leaves every other tree a pass holds as it was;  *)
(* two trees never have a node in common.                                  *)
C14_CloneIndependent ==
    /\ last.op = "clone" =>
          /\ Equals(heap, last.res, last.node)
          /\ Shape(heap, last.res) = Shape(heap, last.node)
          /\ Tree(heap, last.res) \cap Tree(heap, last.node) = {}
          /\ Tree(heap, last.res) \cap DOMAIN last.h = {}
          /\ Value(heap, last.node) = Value(last.h, last.node)
    /\ last.op \in Mutations =>
          \A r \in DOMAIN roots :
              roots[r] # Current => Value(heap, roots[r]) = Value(last.h, roots[r])
    /\ \A r \in DOMAIN roots : \A q \in DOMAIN roots :
          r # q => Tree(heap, roots[r]) \cap Tree(heap, roots[q]) = {}

\* R(@f(X,Y)) was cloned and the clone rewritten by the mapper that swaps X and Y:
\* the clone is R(@f(Y,X)), the original R(@f(X,Y))
C14_Witness ==
    /\ last.op = "apply" /\ last.mapper.xform = "swap"
    /\ Len(roots) = 2
    /\ Shape(heap, roots[1]) = ShapeOf(Atom(<<"R">>, <<UserDefinedFunctor("f", <<X, Y>>)>>))
    /\ Shape(heap, roots[2]) = ShapeOf(Atom(<<"R">>, <<UserDefinedFunctor("f", <<Y, X>>)>>))

(* C15.  Two nodes are equal (operator==) iff they are of one class and    *)
(* equal in every member but the source location, children compared in     *)
(* order; equality is reflexive, symmetric and transitive; the number 0,   *)
(* the null constant and the string of symbol index 0 are pairwise         *)
(* different, as are the number k and the string of index k.               *)
EqualPairs == {p \in Nodes \X Nodes : Equals(heap, p[1], p[2])}

\* (pairs are taken once, a before b: symmetry gives the other order)
C15_EqualityStructural ==
    LET eq == EqualPairs
        shape == [a \in Nodes |-> Shape(heap, a)]
    IN /\ \A a \in Nodes : <<a, a>> \in eq
       /\ \A p \in eq : <<p[2], p[1]>> \in eq
       /\ \A p \in eq : \A c \in Nodes : <<p[2], c>> \in eq => <<p[1], c>> \in eq
       /\ \A a \in Nodes : \A b \in Nodes :
             a < b =>
                 /\ (<<a, b>> \in eq) <=> (shape[a] = shape[b])
                 /\ heap[a].kind # heap[b].kind => <<a, b>> \notin eq

\* a pass holds a record and its clone: the number 0, the null constant and the
\* string of index 0, the number 1 and the string of index 1, all of them twice
C15_Witness ==
    LET eq == EqualPairs
    IN /\ Len(roots) = 2
       /\ \A kind \in {"AstNumberConstant", "AstNullConstant", "AstStringConstant"} :
             \E a \in Nodes : \E b \in Nodes :
                 /\ a # b
                 /\ heap[a].kind = kind /\ heap[a].idx = 0
                 /\ <<a, b>> \in eq
       /\ \E a \in Nodes : \E b \in Nodes :
             /\ heap[a].kind = "AstNumberConstant" /\ heap[b].kind = "AstStringConstant"
             /\ heap[a].idx = 1 /\ heap[b].idx = 1
             /\ <<a, b>> \notin eq

(* C16.  Equality ignores source locations: two nodes that differ in       *)
(* nothing but the SrcLoc of the node or of descendants are equal, and     *)
(* setSrcLoc changes the result of no comparison.                          *)
C16_EqualityIgnoresSrcLoc ==
    LET shape == [a \in Nodes |-> Shape(heap, a)]
        value == [a \in Nodes |-> Value(heap, a)]
    IN /\ \A a \in Nodes : \A b \in Nodes :
             (a < b /\ shape[a] = shape[b] /\ value[a] # value[b])
                 => Equals(heap, a, b) /\ Equals(heap, b, a)
       /\ last.op = "setSrcLoc" =>
             \A a \in Nodes : \A b \in Nodes :
                 Equals(heap, a, b) <=> Equals(last.h, a, b)

\* setSrcLoc has moved a descendant of a clone: clone and original differ in that
\* location alone
C16_Witness ==
    /\ last.op = "setSrcLoc"
    /\ Len(roots) = 2
    /\ last.node # roots[2]
    /\ heap[last.node].kind = "AstVariable"
    /\ Value(heap, roots[1]) # Value(heap, roots[2])
    /\ Shape(heap, roots[1]) = Shape(heap, roots[2])

(* C17.  apply with the identity mapper leaves the node as it was: the     *)
(* same child slots holding the same children in the same order, the tree  *)
(* of equal value; on a leaf (variable, unnamed variable, counter,         *)
(* constant, subroutine argument) apply does nothing and calls no mapper.  *)
Leaves ==
    {"AstVariable", "AstUnnamedVariable", "AstCounter", "AstStringConstant",
     "AstNumberConstant", "AstNullConstant", "AstSubroutineArgument"}

C17_IdentityRewrite ==
    last.op = "apply" =>
        /\ last.mapper.xform = "id" =>
              /\ last.failed = ""
              /\ ChildSlots(heap[last.node]) = ChildSlots(last.h[last.node])
              /\ Value(heap, last.node) = Value(last.h, last.node)
        /\ last.h[last.node].kind \in Leaves =>
              /\ heap = last.h
              /\ last.calls = <<>>

\* the identity mapper was applied to an aggregator with a target and three body
\* literals
C17_Witness ==
    /\ last.op = "apply" /\ last.mapper.xform = "id"
    /\ heap[last.node].kind = "AstAggregator"
    /\ heap[last.node].expr # NoNode
    /\ Len(heap[last.node].body) = 3
    /\ Len(last.calls) = 4

(* C18.  apply(m) calls m once per child slot that holds a node, in        *)
(* declaration order, and stores the result in that slot; it calls m on    *)
(* nothing else: not on the node, not on a grandchild (those calls are the *)
(* mapper's own).  A failing call is the last one.                         *)
\* the calls made by the apply of node a
CallsBy(a) == SelectSeq(last.calls, LAMBDA c : c.by = a)

C18_OncePerSlotInOrder ==
    last.op = "apply" =>
        LET a == last.node
            own == CallsBy(a)
            before == ChildSlots(last.h[a])
            after == ChildSlots(heap[a])
            \* the slots that held a node, by position
            held == SelectSeq([i \in DOMAIN before |-> i], LAMBDA i : before[i] # NoNode)
        IN /\ Len(own) <= Len(held)
           /\ last.failed = "" => Len(own) = Len(held)
           /\ Len(after) = Len(before)
           /\ \A n \in DOMAIN own :
                 /\ own[n].arg = before[held[n]]
                 /\ (n < Len(own) \/ last.failed = "") => after[held[n]] = own[n].res
           /\ \A i \in DOMAIN before :
                 (before[i] = NoNode \/ \A n \in DOMAIN own : held[n] # i)
                     => after[i] = before[i]

\* the swapping mapper was applied to a node with grandchildren: the mapper was
\* called on them too, by the children's apply
C18_Witness ==
    /\ last.op = "apply" /\ last.mapper.xform = "swap"
    /\ Len(CallsBy(last.node)) = 2
    /\ Len(last.calls) > 2
    /\ \E n \in DOMAIN last.calls : last.calls[n].by # last.node

(* C19.  An intrinsic functor constructed with a number of operands other  *)
(* than the arity of its op fails the constructor's assertion and does not *)
(* come to exist: every intrinsic functor on the heap, clones included,    *)
(* has as many args as its op's arity.                                     *)
C19_FunctorArity ==
    /\ \A a \in DOMAIN heap :
          heap[a].kind \in IntrinsicFunctors =>
              Len(heap[a].args) = getFunctorOpArity(heap[a].op)
    /\ last.op = "construct" =>
          IF getFunctorOpArity(last.fun) = last.operands
          THEN /\ pc = "ast"
               /\ heap[Current].kind = last.class /\ heap[Current].op = last.fun
               /\ Len(heap[Current].args) = last.operands
          ELSE /\ pc = "aborted"
               /\ heap = last.h
    /\ pc = "aborted" =>
          last.op = "construct" /\ getFunctorOpArity(last.fun) # last.operands

\* a ternary functor was asked for with the binary op ADD, while a pass held
\* cat(ord(X), Y)
C19_Witness ==
    /\ pc = "aborted"
    /\ last.class = "AstTernaryFunctor" /\ last.fun = "ADD" /\ last.operands = 3
    /\ \E a \in DOMAIN heap : \E b \in DOMAIN heap :
          /\ heap[a].kind = "AstBinaryFunctor" /\ heap[b].kind = "AstUnaryFunctor"
          /\ heap[a].args[1] = b

(* C20.  When the mapper fails (throws, or returns no node) during apply,  *)
(* no partial state is left: no slot that held a child is empty, and the   *)
(* node does not have some slots replaced and others untouched.            *)
C20_NoPartialState ==
    (last.op = "apply" /\ last.failed # "") =>
        LET before == ChildSlots(last.h[last.node])
            after == ChildSlots(heap[last.node])
        IN /\ \A i \in DOMAIN before : before[i] # NoNode => after[i] # NoNode
           /\ \/ \A i \in DOMAIN before : after[i] = before[i]
              \/ \A i \in DOMAIN before : before[i] # NoNode => after[i] # before[i]

-----------------------------------------------------------------------------
(* C21.  Token accounting of every finished NormalisedClause: every param  *)
(* of every element is in constants, in variables, @min:scope:0 or         *)
(* @min:unhandled:arg; every member of constants and of variables is a     *)
(* param of some element; @min:scope:0 is not in variables and every       *)
(* aggregator's scope id is; constants and variables are disjoint (no      *)
(* variable of these programs has a name starting with @min:).             *)
Params(k) == UNION {Range(Elems(k)[i].params) : i \in DOMAIN Elems(k)}

C21_TokenAccounting ==
    \A k \in Done :
        LET n == normalisations[k]
            params == Params(k)
        IN /\ params \subseteq
                  n.constants \cup n.variables \cup {"@min:scope:0", "@min:unhandled:arg"}
           /\ n.constants \cup n.variables \subseteq params
           /\ {"@min:scope:0", "@min:unhandled:arg"} \cap (n.constants \cup n.variables) = {}
           /\ \A i \in DOMAIN Elems(k) :
                 IsAggrType(Elems(k)[i]) => Elems(k)[i].params[1] \in n.variables
           /\ \A a \in 1..n.aggrScopeCount : ScopeToken(a) \in n.variables
           /\ Cardinality({i \in DOMAIN Elems(k) : IsAggrType(Elems(k)[i])}) = n.aggrScopeCount
           /\ n.constants \cap n.variables = {}

\* R(count : { S(_) }, 1) :- T("a"). and R(X) :- !S(count : { T(X), true }, [X]).
\* are finished: constants, named and unnamed variables, scope ids, @min:scope:0 and
\* @min:unhandled:arg all stand in params
C21_Witness ==
    /\ Done = {1, 2}
    /\ normalisations[1].constants = {"@min:cst:num:1", "@min:cst:str\"a\""}
    /\ normalisations[1].variables = {"@min:scope:1", "@min:unnamed:0"}
    /\ "@min:scope:0" \in Params(1)
    /\ "@min:unhandled:arg" \in Params(2)
    /\ normalisations[2].variables = {"X", "@min:scope:1"}
    /\ normalisations[2].constants = {}

-----------------------------------------------------------------------------
(* C22.  Emission order with aggregators.                                  *)

IsHead(e) == e.name = <<"@min:head">>

\* the elements of the body literals of the aggregator with scope id s: they carry s
\* in front of their params, an unhandled literal in its name
BodyElementsOf(els, s) ==
    {j \in DOMAIN els :
        /\ ~IsHead(els[j]) /\ ~IsAggrType(els[j])
        /\ \/ els[j].params # <<>> /\ els[j].params[1] = s
           \/ els[j].name[1] = "@min:unhandled:lit:" \o s}

\* the elements that hold the aggregator with scope id s as an argument: the head, a
\* literal, or the @min:aggrtype element of an aggregator that has it as target
HoldersOf(els, s) ==
    {c \in DOMAIN els :
        IF IsHead(els[c]) THEN s \in Range(els[c].params)
        ELSE els[c].params # <<>> /\ s \in Range(Tail(els[c].params))}

\* the number of literals ("lit") or aggregators ("aggr") in arguments and literals,
\* at every nesting level; deep: also inside functors, records and casts
RECURSIVE CountArgs(_, _, _)
RECURSIVE CountLits(_, _, _)
CountArgs(args, what, deep) ==
    IF args = <<>> THEN 0
    ELSE (LET arg == Head(args)
          IN IF arg.kind = "AstAggregator"
             THEN (IF what = "aggr" THEN 1 ELSE 0)
                  + CountArgs(arg.target, what, deep) + CountLits(arg.body, what, deep)
             ELSE IF deep THEN CountArgs(NestedArguments(arg), what, deep) ELSE 0)
         + CountArgs(Tail(args), what, deep)
CountLits(lits, what, deep) ==
    IF lits = <<>> THEN 0
    ELSE (IF what = "lit" THEN 1 ELSE 0)
         + CountArgs(Slots(Head(lits)), what, deep)
         + CountLits(Tail(lits), what, deep)
CountIn(clause, what, deep) ==
    CountArgs(clause.head.args, what, deep) + CountLits(clause.body, what, deep)

\* every aggregator's @min:aggrtype element comes before the elements of its body
\* literals, and all of them before the one element that holds the aggregator
AggregatorsFirst(k) ==
    \A i \in DOMAIN Elems(k) :
        IsAggrType(Elems(k)[i]) =>
            LET s == Elems(k)[i].params[1]
                holders == HoldersOf(Elems(k), s) \ {i}
            IN /\ Cardinality(holders) = 1
               /\ \A c \in holders :
                     /\ i < c
                     /\ \A j \in BodyElementsOf(Elems(k), s) : i < j /\ j < c

(* C22 as stated: the elements of an aggregator come before the element    *)
(* of the literal, head or enclosing aggregator that holds it, and the     *)
(* number of elements is 1 + the number of literals at every nesting level *)
(* + the number of aggregators, wherever in the clause they stand.         *)
C22_EmissionOrderEveryAggregator ==
    \A k \in Done :
        /\ AggregatorsFirst(k)
        /\ Len(Elems(k)) =
              1 + CountIn(clauses[k], "lit", TRUE) + CountIn(clauses[k], "aggr", TRUE)

(* C22 amended: the same order, and the number of elements is 1 + the      *)
(* number of literals + the number of aggregators that the normaliser      *)
(* reaches: aggregators that are an argument of the head or of a literal,  *)
(* or the target of such an aggregator, and the literals of their bodies.  *)
(* An aggregator inside a functor, a record or a cast belongs to an        *)
(* unhandled argument and has no element.                                  *)
C22_EmissionOrderReached ==
    \A k \in Done :
        /\ AggregatorsFirst(k)
        /\ Len(Elems(k)) =
              1 + CountIn(clauses[k], "lit", FALSE) + CountIn(clauses[k], "aggr", FALSE)
        /\ Cardinality({i \in DOMAIN Elems(k) : IsAggrType(Elems(k)[i])}) =
              CountIn(clauses[k], "aggr", FALSE)

\* R(X) :- X = max (min Y : { S(Y) }) : { T(X) }. is finished: min's elements, then
\* max's, then the constraint's; and R(X) :- X = sum (@f(min Y : { S(Y) })) : { T(X) }.
\* with three elements after the head's, none of them for min
C22_Witness ==
    /\ Done = {1, 2}
    /\ Len(Elems(1)) = 6 /\ Len(Elems(2)) = 4
    /\ [i \in 1..6 |-> Elems(1)[i].name] =
          <<<<"@min:head">>, <<"@min:aggrtype:min">>, <<"@min:atom", "S">>,
            <<"@min:aggrtype:max">>, <<"@min:atom", "T">>, <<"@min:operator", "=">>>>
    /\ Elems(1)[4].params = <<"@min:scope:1", "@min:scope:2">>
    /\ CountIn(clauses[2], "aggr", TRUE) = 2
    /\ [i \in 1..4 |-> Elems(2)[i].name] =
          <<<<"@min:head">>, <<"@min:aggrtype:sum">>, <<"@min:atom", "T">>,
            <<"@min:operator", "=">>>>
    /\ Elems(2)[2].params = <<"@min:scope:1", "@min:unhandled:arg">>

====
